---- MODULE Spec2Model ----
(***************************************************************************)
(* A model of the bptree-db storage engine: DiskManager (mmap'ed page      *)
(* file with a free list), BufferPool (pin/unpin, LRU eviction), the       *)
(* write-ahead log and the B+ tree that runs on top of them.               *)
(*                                                                         *)
(* Every C++ function is an operator that takes the machine state `s` (a   *)
(* record holding the disk, the pool, the WAL and the tree members) and    *)
(* returns the state after the call; the value the C++ function returns    *)
(* is left in the field `ret` (and `ret2`, `ret3` for out-parameters).     *)
(***************************************************************************)
EXTENDS Integers, Sequences, FiniteSets, TLC

\* ------------------------------------------------------------------------
\* config.h
\* ------------------------------------------------------------------------
PAGE_SIZE == 4096
DATA_SIZE == 100
LEAF_MAX_KEYS == 35
INTERNAL_MAX_KEYS == 100
INVALID_PAGE_ID == -1
LEAF_MIN_KEYS == (LEAF_MAX_KEYS + 1) \div 2
INTERNAL_MIN_KEYS == (INTERNAL_MAX_KEYS + 1) \div 2
MinFileGrowth == 1048576

\* The element of a set of one element.  Only({ e : x \in {v} }) is e with x
\* bound to the value of v, computed once; a chain of bindings reads from its
\* last line upward.
Only(S) == CHOOSE x \in S : TRUE

Max(a, b) == IF a >= b THEN a ELSE b
Min(a, b) == IF a <= b THEN a ELSE b

\* ------------------------------------------------------------------------
\* page.h : a page is 4096 bytes.  The model keeps the fields the typed
\* views read: bytes 0..3 (num_keys), bytes 4..7 (is_leaf), bytes 8..15
\* (next_leaf of a leaf, child 0 of an internal node) and the live slots
\* of the body (records of a leaf; keys and children 1..n of an internal
\* node).  Slots past num_keys are never read by the code and are left out.
\* ------------------------------------------------------------------------
ZeroPage == [num_keys |-> 0, is_leaf |-> 0, w8 |-> 0,
             keys |-> <<>>, vals |-> <<>>, kids |-> <<>>]

PageIsLeaf(page) == page.is_leaf = 1

LeafInit == [num_keys |-> 0, is_leaf |-> 1, w8 |-> INVALID_PAGE_ID,
             keys |-> <<>>, vals |-> <<>>, kids |-> <<>>]

InternalInit == ZeroPage

\* LeafPage / InternalPage accessors (index i is the C++ 0-based index).
NumKeys(page) == page.num_keys
NextLeaf(page) == page.w8
KeyAt(page, i) == IF i + 1 \in DOMAIN page.keys THEN page.keys[i + 1] ELSE 0
ChildAt(page, i) ==
    IF i = 0 THEN page.w8
    ELSE IF i \in DOMAIN page.kids THEN page.kids[i] ELSE 0

\* A leaf written without its next_leaf link.
MkLeafNoNext(recs, next) ==
    [num_keys |-> Len(recs), is_leaf |-> 1, w8 |-> INVALID_PAGE_ID,
     keys |-> [i \in 1..Len(recs) |-> recs[i][1]],
     vals |-> [i \in 1..Len(recs) |-> recs[i][2]],
     kids |-> <<>>]

\* A leaf page holding the records recs (a sequence of <<key, data>>).
MkLeaf(recs, next) ==
    [num_keys |-> Len(recs), is_leaf |-> 1, w8 |-> next,
     keys |-> [i \in 1..Len(recs) |-> recs[i][1]],
     vals |-> [i \in 1..Len(recs) |-> recs[i][2]],
     kids |-> <<>>]

\* An internal page holding keys ks and children cs (Len(cs) = Len(ks)+1).
MkInternal(ks, cs) ==
    [num_keys |-> Len(ks), is_leaf |-> 0, w8 |-> cs[1],
     keys |-> ks, vals |-> <<>>,
     kids |-> [i \in 1..(Len(cs) - 1) |-> cs[i + 1]]]

\* SetData that copies nothing into the record.
SetDataDropped(page, idx, data) == page

\* LeafPage::SetData: the payload of record idx replaced, its key kept.
SetData(page, idx, data) == [page EXCEPT !.vals[idx + 1] = data]

Records(page) == [i \in 1..Len(page.keys) |-> <<page.keys[i], page.vals[i]>>]
Children(page) == <<page.w8>> \o page.kids

\* The free-list link is an int64 that overlays bytes 0..7 (num_keys is its
\* low half, is_leaf its high half).  Offsets in the model stay below 2^31,
\* so a link v is stored as (v, 0) when v >= 0 and as (v, -1) when v < 0;
\* any other pair of halves reads back as an address of 2^32 or more, for
\* which the model keeps the one value HugeOffset.
HugeOffset == 2147483647
ReadLink(page) ==
    IF \/ page.is_leaf = 0 /\ page.num_keys >= 0
       \/ page.is_leaf = -1 /\ page.num_keys < 0
    THEN page.num_keys ELSE HugeOffset
WriteLink(page, v) ==
    [page EXCEPT !.num_keys = v, !.is_leaf = IF v < 0 THEN -1 ELSE 0]

\* ------------------------------------------------------------------------
\* disk_manager.cpp : s.d = [pages, root, next, free_head, file_size]
\* pages[n] is the page at byte offset n * PAGE_SIZE (n >= 1); page 0 is
\* the metadata page, kept as the three fields root, next and free_head.
\* Bytes of the file that were never written read as zero.
\* ------------------------------------------------------------------------
PageNo(off) == off \div PAGE_SIZE

InFile(d, off) == off >= 0 /\ off + PAGE_SIZE <= d.file_size

PageData(d, off) ==
    IF PageNo(off) \in 1..Len(d.pages) THEN d.pages[PageNo(off)] ELSE ZeroPage

SetPageData(d, off, page) ==
    Only({ Only({
        [d EXCEPT !.pages = [padded EXCEPT ![n] = page]]
      : padded \in {IF n <= Len(d.pages) THEN d.pages
                    ELSE d.pages \o [i \in 1..(n - Len(d.pages)) |-> ZeroPage]} })
      : n \in {PageNo(off)} })

RoundUp(x) == ((x + PAGE_SIZE - 1) \div PAGE_SIZE) * PAGE_SIZE

EnsureCapacity(d, required) ==
    IF required <= d.file_size THEN d
    ELSE Only({ Only({
             [d EXCEPT !.file_size = RoundUp(new_size)]
           : new_size \in {Max(min_size, Max(d.file_size * 2, MinFileGrowth))} })
           : min_size \in {RoundUp(required)} })

\* FreePage that moves the head and stores no link in the page.
FreePageStoresNoLink(d, page_offset) ==
    IF page_offset < PAGE_SIZE THEN d ELSE [d EXCEPT !.free_head = page_offset]

FreePage(d, page_offset) ==
    IF page_offset < PAGE_SIZE THEN d
    ELSE Only({ Only({
             [d1 EXCEPT !.free_head = page_offset]
           : d1 \in {SetPageData(d, page_offset,
                                 WriteLink(PageData(d, page_offset), old_head))} })
           : old_head \in {d.free_head} })

\* ReclaimPage that finds the free list empty whatever it holds.
ReclaimPageNever(d) == <<d, INVALID_PAGE_ID>>

\* ReclaimPage and AllocatePage return <<d', offset>>.
ReclaimPage(d) ==
    Only({
        IF head = INVALID_PAGE_ID THEN <<d, INVALID_PAGE_ID>>
        ELSE <<[d EXCEPT !.free_head = ReadLink(PageData(d, head))], head>>
      : head \in {d.free_head} })

AllocatePage(d) ==
    Only({
        IF r[2] # INVALID_PAGE_ID THEN <<SetPageData(r[1], r[2], ZeroPage), r[2]>>
        ELSE Only({ Only({ Only({ Only({
                 <<[d2 EXCEPT !.next = new_next], next>>
               : d2 \in {SetPageData(d1, next, ZeroPage)} })
               : d1 \in {EnsureCapacity(d, new_next)} })
               : new_next \in {next + PAGE_SIZE} })
               : next \in {d.next} })
      : r \in {ReclaimPage(d)} })

\* ---- Growth when a system call fails ----
\* EnsureCapacity and AllocatePage above are the runs in which ftruncate and
\* mmap succeed.  Here d carries two more fields, mapped (mapped_ is not
\* null) and file_len (the length of the file as the file system has it),
\* and sys names the call that fails: "none", "ftruncate" or "mmap".
\* Both return the DiskManager and whether std::runtime_error was thrown.
EnsureCapacitySys(d, required, sys) ==
    IF required <= d.file_size THEN <<d, FALSE>>
    ELSE IF sys = "ftruncate" THEN <<[d EXCEPT !.mapped = FALSE], TRUE>>
    ELSE IF sys = "mmap"
    THEN <<[d EXCEPT !.mapped = FALSE,
                     !.file_len = EnsureCapacity(d, required).file_size], TRUE>>
    ELSE <<[EnsureCapacity(d, required) EXCEPT
                !.mapped = TRUE,
                !.file_len = EnsureCapacity(d, required).file_size], FALSE>>

\* <<d', offset, thrown>>
AllocatePageSys(d, sys) ==
    Only({
        IF r[2] # INVALID_PAGE_ID
        THEN <<SetPageData(r[1], r[2], ZeroPage), r[2], FALSE>>
        ELSE Only({
                 IF e[2] THEN <<e[1], INVALID_PAGE_ID, TRUE>>
                 ELSE <<[SetPageData(e[1], d.next, ZeroPage) EXCEPT
                            !.next = d.next + PAGE_SIZE], d.next, FALSE>>
               : e \in {EnsureCapacitySys(d, d.next + PAGE_SIZE, sys)} })
      : r \in {ReclaimPage(d)} })

\* AllocatePage / FreePage touch mapped_ + offset without a range check:
\* an offset outside the mapping is a wild access.
AllocWild(d) == d.free_head # INVALID_PAGE_ID /\ ~InFile(d, d.free_head)
FreeWild(d, page_offset) == page_offset >= PAGE_SIZE /\ ~InFile(d, page_offset)

\* DiskManager::DiskManager on a brand-new file.
NewDisk == [pages |-> <<>>, root |-> INVALID_PAGE_ID, next |-> PAGE_SIZE,
            free_head |-> INVALID_PAGE_ID, file_size |-> PAGE_SIZE]

\* wal.h : LogRecordType
kInvalid == 0
kPageWrite == 1
kCheckpointBegin == 2
kCheckpointEnd == 3

\* ------------------------------------------------------------------------
\* buffer_pool.cpp : s.p = [frames, page_table, lru_list, free_list, wal]
\* frames is indexed 0..pool_size-1; a "char*" into a frame is the frame
\* index, the null pointer is -1.
\* ------------------------------------------------------------------------
NullPtr == -1

EmptyFrame == [page_id |-> INVALID_PAGE_ID, pin_count |-> 0, dirty |-> FALSE,
               data |-> ZeroPage]

NewPool(pool_size) ==
    [frames |-> [i \in 0..(pool_size - 1) |-> EmptyFrame],
     page_table |-> [x \in {} |-> 0],
     lru_list |-> << >>,
     free_list |-> [i \in 1..pool_size |-> pool_size - i],
     wal |-> FALSE]

SeqRemove(seq, x) == SelectSeq(seq, LAMBDA y : y # x)
MapErase(f, k) == [x \in (DOMAIN f) \ {k} |-> f[x]]
MapPut(f, k, v) == [x \in (DOMAIN f) \cup {k} |-> IF x = k THEN v ELSE f[x]]
Back(seq) == seq[Len(seq)]
PopBack(seq) == SubSeq(seq, 1, Len(seq) - 1)

\* The memcpy of frame f to its page of the data file, as an entry of s.io:
\* <<"copy", page_id, contents, logged>>, where logged tells whether at
\* that moment the fsynced part of the WAL holds a PAGE_WRITE record of
\* this page with these contents.
WalHolds(w, page_id, data) ==
    \E i \in 1..w.synced :
        /\ w.file[i].type = kPageWrite
        /\ w.file[i].page_id = page_id
        /\ w.file[i].data = data
CopyEvent(s, f) == <<"copy", f.page_id, f.data, WalHolds(s.w, f.page_id, f.data)>>

\* FindVictim that falls back on frame 0 whatever its pin count.
FindVictimAnyFrame(p) == IF p.lru_list = << >> THEN 0 ELSE Head(p.lru_list)

\* FindVictim that takes the frame unpinned last.
FindVictimNewest(p) == IF p.lru_list = << >> THEN -1 ELSE Back(p.lru_list)

FindVictim(p) == IF p.lru_list = << >> THEN -1 ELSE Head(p.lru_list)

\* EvictFrame that drops the frame without copying it to the data file.
EvictFrameNoWriteBack(s, frame_idx) ==
    [s EXCEPT !.p.page_table = MapErase(@, s.p.frames[frame_idx].page_id),
              !.p.lru_list = SeqRemove(@, frame_idx),
              !.p.frames[frame_idx].page_id = INVALID_PAGE_ID,
              !.p.frames[frame_idx].pin_count = 0]

EvictFrame(s, frame_idx) ==
    Only({ Only({
        IF s1.thrown THEN s1
        ELSE [s1 EXCEPT !.p.page_table = MapErase(@, f.page_id),
                        !.p.lru_list = SeqRemove(@, frame_idx),
                        !.p.frames[frame_idx].page_id = INVALID_PAGE_ID,
                        !.p.frames[frame_idx].pin_count = 0]
      : s1 \in {IF f.dirty /\ f.page_id # INVALID_PAGE_ID
                THEN IF InFile(s.d, f.page_id)
                     THEN [s EXCEPT !.d = SetPageData(s.d, f.page_id, f.data),
                                    !.p.frames[frame_idx].dirty = FALSE,
                                    !.io = Append(@, CopyEvent(s, f))]
                     ELSE [s EXCEPT !.thrown = TRUE]
                ELSE s} })
      : f \in {s.p.frames[frame_idx]} })

\* The frame for a page that is not resident: s with ret = the frame index,
\* or ret = -1 when every frame is pinned.
TakeFrame(s) ==
    IF s.p.free_list # << >>
    THEN [s EXCEPT !.p.free_list = PopBack(@), !.ret = Back(s.p.free_list)]
    ELSE Only({
             IF v = -1 THEN [s EXCEPT !.ret = NullPtr]
             ELSE [EvictFrame(s, v) EXCEPT !.ret = v]
           : v \in {FindVictim(s.p)} })

FetchPage(s, page_id) ==
    IF page_id \in DOMAIN s.p.page_table
    THEN Only({
             [s EXCEPT !.p.frames[idx].pin_count = @ + 1,
                       !.p.lru_list = SeqRemove(@, idx),
                       !.ret = idx]
           : idx \in {s.p.page_table[page_id]} })
    ELSE Only({ Only({
             IF idx = NullPtr \/ s1.thrown THEN [s1 EXCEPT !.ret = NullPtr]
             ELSE IF ~InFile(s1.d, page_id)
             THEN [s1 EXCEPT !.p.frames[idx] =
                                [@ EXCEPT !.page_id = page_id, !.pin_count = 1,
                                          !.dirty = FALSE],
                             !.thrown = TRUE, !.ret = NullPtr]
             ELSE [s1 EXCEPT !.p.frames[idx] =
                                [page_id |-> page_id, pin_count |-> 1,
                                 dirty |-> FALSE,
                                 data |-> PageData(s1.d, page_id)],
                             !.p.page_table = MapPut(@, page_id, idx),
                             !.ret = idx]
           : idx \in {s1.ret} })
           : s1 \in {TakeFrame(s)} })

\* UnpinPage without the test of pin_count.
UnpinPageUnchecked(s, page_id, dirty) ==
    IF page_id \notin DOMAIN s.p.page_table THEN [s EXCEPT !.ret = FALSE]
    ELSE [s EXCEPT !.p.frames[s.p.page_table[page_id]].dirty = (@ \/ dirty),
                   !.p.frames[s.p.page_table[page_id]].pin_count = @ - 1,
                   !.p.lru_list = IF s.p.frames[s.p.page_table[page_id]].pin_count = 1
                                  THEN Append(@, s.p.page_table[page_id]) ELSE @,
                   !.ret = TRUE]

UnpinPagePool(s, page_id, dirty) ==
    IF page_id \notin DOMAIN s.p.page_table THEN [s EXCEPT !.ret = FALSE]
    ELSE Only({ Only({
             IF f.pin_count <= 0 THEN [s EXCEPT !.ret = FALSE]
             ELSE [s EXCEPT !.p.frames[idx].dirty = (@ \/ dirty),
                            !.p.frames[idx].pin_count = @ - 1,
                            !.p.lru_list = IF f.pin_count = 1
                                           THEN Append(@, idx) ELSE @,
                            !.ret = TRUE]
           : f \in {s.p.frames[idx]} })
           : idx \in {s.p.page_table[page_id]} })

\* The flush of a frame that copies it to the data file and leaves it dirty.
FlushFrameLeavesDirty(s, idx) ==
    IF ~s.p.frames[idx].dirty \/ s.thrown THEN s
    ELSE IF ~InFile(s.d, s.p.frames[idx].page_id) THEN [s EXCEPT !.thrown = TRUE]
    ELSE [s EXCEPT !.d = SetPageData(s.d, s.p.frames[idx].page_id, s.p.frames[idx].data),
                   !.io = Append(@, CopyEvent(s, s.p.frames[idx]))]

FlushFrame(s, idx) ==
    Only({
        IF ~f.dirty \/ s.thrown THEN s
        ELSE IF ~InFile(s.d, f.page_id) THEN [s EXCEPT !.thrown = TRUE]
        ELSE [s EXCEPT !.d = SetPageData(s.d, f.page_id, f.data),
                       !.p.frames[idx].dirty = FALSE,
                       !.io = Append(@, CopyEvent(s, f))]
      : f \in {s.p.frames[idx]} })

FlushPage(s, page_id) ==
    IF page_id \notin DOMAIN s.p.page_table THEN [s EXCEPT !.ret = FALSE]
    ELSE [FlushFrame(s, s.p.page_table[page_id]) EXCEPT !.ret = TRUE]

RECURSIVE FlushFrames(_, _)
FlushFrames(s, idxs) ==
    IF idxs = {} THEN s
    ELSE Only({
             FlushFrames(FlushFrame(s, i), idxs \ {i})
           : i \in {CHOOSE x \in idxs : \A y \in idxs : x <= y} })

FlushAllPages(s) ==
    Only({
        IF s1.thrown THEN s1 ELSE [s1 EXCEPT !.io = Append(@, <<"sync">>)]
      : s1 \in {FlushFrames(s, {s.p.page_table[pid] : pid \in DOMAIN s.p.page_table})} })

NewPage(s) ==
    IF AllocWild(s.d) THEN [s EXCEPT !.ub = TRUE, !.ret = NullPtr] ELSE
    Only({ Only({ Only({ Only({
        IF idx = NullPtr \/ s1.thrown
        THEN [s1 EXCEPT !.ret = NullPtr, !.ret2 = page_id]
        ELSE [s1 EXCEPT !.p.frames[idx] =
                           [page_id |-> page_id, pin_count |-> 1,
                            dirty |-> TRUE, data |-> ZeroPage],
                        !.p.page_table = MapPut(@, page_id, idx),
                        !.ret = idx, !.ret2 = page_id]
      : idx \in {s1.ret} })
      : s1 \in {TakeFrame([s EXCEPT !.d = a[1]])} })
      : page_id \in {a[2]} })
      : a \in {AllocatePage(s.d)} })

\* DeletePage that writes a dirty frame to the data file before dropping it.
DeletePageFlushing(s, page_id) ==
    IF page_id \notin DOMAIN s.p.page_table THEN [s EXCEPT !.ret = TRUE]
    ELSE IF s.p.frames[s.p.page_table[page_id]].pin_count > 0 THEN [s EXCEPT !.ret = FALSE]
    ELSE [FlushFrame(s, s.p.page_table[page_id]) EXCEPT
              !.p.lru_list = SeqRemove(@, s.p.page_table[page_id]),
              !.p.frames[s.p.page_table[page_id]] =
                  [@ EXCEPT !.page_id = INVALID_PAGE_ID, !.pin_count = 0, !.dirty = FALSE],
              !.p.page_table = MapErase(@, page_id),
              !.p.free_list = Append(@, s.p.page_table[page_id]),
              !.ret = TRUE]

DeletePage(s, page_id) ==
    IF page_id \notin DOMAIN s.p.page_table THEN [s EXCEPT !.ret = TRUE]
    ELSE Only({ Only({
             IF f.pin_count > 0 THEN [s EXCEPT !.ret = FALSE]
             ELSE [s EXCEPT !.p.lru_list = SeqRemove(@, idx),
                            !.p.frames[idx] = [@ EXCEPT !.page_id = INVALID_PAGE_ID,
                                                        !.pin_count = 0,
                                                        !.dirty = FALSE],
                            !.p.page_table = MapErase(@, page_id),
                            !.p.free_list = Append(@, idx),
                            !.ret = TRUE]
           : f \in {s.p.frames[idx]} })
           : idx \in {s.p.page_table[page_id]} })

\* ------------------------------------------------------------------------
\* wal.cpp : s.w = [file, hdr, synced, next_lsn, checkpoint_lsn]
\* file is the sequence of log records after the 16-byte header, hdr is the
\* header's checkpoint_lsn, synced the number of records known to be on
\* stable storage (fsync).  A record is [lsn, type, page_id, data_len, data,
\* crc_ok]; crc_ok says whether the stored checksum matches the contents.
\* ------------------------------------------------------------------------
\* WriteAheadLog::WriteAheadLog on a file that does not exist yet.
NewWal == [file |-> << >>, hdr |-> 0, synced |-> 0,
           next_lsn |-> 1, checkpoint_lsn |-> 0]

AppendRecord(w, type, page_id, data, data_len) ==
    [w EXCEPT !.file = Append(@, [lsn |-> w.next_lsn, type |-> type,
                                  page_id |-> page_id, data_len |-> data_len,
                                  data |-> data, crc_ok |-> TRUE]),
              !.next_lsn = @ + 1]

WalFlush(w) == [w EXCEPT !.synced = Len(w.file)]

\* Truncate that rewrites the header and leaves the records in the file.
TruncateKeepsRecords(w) == [w EXCEPT !.hdr = w.checkpoint_lsn, !.synced = Len(w.file)]

Truncate(w) == [w EXCEPT !.file = << >>, !.hdr = w.checkpoint_lsn, !.synced = 0]

\* LogPageWrite, BeginCheckpoint and EndCheckpoint return <<w', lsn>>.
LogPageWrite(w, page_id, page_data) ==
    <<AppendRecord(w, kPageWrite, page_id, page_data, PAGE_SIZE), w.next_lsn>>

BeginCheckpoint(w) ==
    <<WalFlush(AppendRecord(w, kCheckpointBegin, INVALID_PAGE_ID, ZeroPage, 0)),
      w.next_lsn>>

\* EndCheckpoint that leaves the log as long as it was.
EndCheckpointKeepsLog(w) ==
    Only({
        <<[w1 EXCEPT !.checkpoint_lsn = w.next_lsn, !.hdr = w.next_lsn], w.next_lsn>>
      : w1 \in {WalFlush(AppendRecord(w, kCheckpointEnd, INVALID_PAGE_ID, ZeroPage, 0))} })

EndCheckpoint(w) ==
    Only({ Only({ Only({
        <<Truncate(w2), lsn>>
      : w2 \in {[w1 EXCEPT !.checkpoint_lsn = lsn, !.hdr = lsn]} })
      : w1 \in {WalFlush(AppendRecord(w, kCheckpointEnd, INVALID_PAGE_ID, ZeroPage, 0))} })
      : lsn \in {w.next_lsn} })

\* The scan of ReadAllRecords without the comparison of the checksums.
RECURSIVE ValidPrefixLenNoChecksum(_, _)
ValidPrefixLenNoChecksum(file, i) ==
    IF i > Len(file) THEN Len(file)
    ELSE IF file[i].lsn = 0 \/ file[i].type > kCheckpointEnd
    THEN i - 1
    ELSE ValidPrefixLenNoChecksum(file, i + 1)

\* ReadAllRecords: the records up to the first malformed one.
RECURSIVE ValidPrefixLen(_, _)
ValidPrefixLen(file, i) ==
    IF i > Len(file) THEN Len(file)
    ELSE IF file[i].lsn = 0 \/ file[i].type > kCheckpointEnd \/ ~file[i].crc_ok
    THEN i - 1
    ELSE ValidPrefixLen(file, i + 1)

ReadAllRecords(w) == SubSeq(w.file, 1, ValidPrefixLen(w.file, 1))

\* WriteAheadLog::WriteAheadLog on an existing file: the members after the
\* header has been read and the log scanned.
OpenWal(w) ==
    Only({
        [w EXCEPT !.checkpoint_lsn = w.hdr,
                  !.next_lsn = IF records # << >> THEN Back(records).lsn + 1 ELSE 1]
      : records \in {ReadAllRecords(w)} })

\* The LSN after which Recover redoes: the last CHECKPOINT_END in the log,
\* the header's checkpoint_lsn if there is none.
RedoAfterLsn(w, records) ==
    Only({
        IF ends = {} THEN w.checkpoint_lsn
        ELSE records[CHOOSE i \in ends : \A j \in ends : j <= i].lsn
      : ends \in {{i \in DOMAIN records : records[i].type = kCheckpointEnd}} })

Redoable(rec, redo_after_lsn) ==
    /\ rec.lsn > redo_after_lsn
    /\ rec.type = kPageWrite
    /\ rec.page_id # INVALID_PAGE_ID
    /\ rec.data_len = PAGE_SIZE

RECURSIVE AllocateUpTo(_, _)
AllocateUpTo(d, page_id) ==
    IF d.next <= page_id /\ ~AllocWild(d) THEN AllocateUpTo(AllocatePage(d)[1], page_id) ELSE d

\* Applies records[i..]; returns <<d', pages_recovered, thrown>>.
RECURSIVE RedoFrom(_, _, _, _, _)
RedoFrom(d, records, i, redo_after_lsn, n) ==
    IF i > Len(records) THEN <<d, n, FALSE>>
    ELSE IF ~Redoable(records[i], redo_after_lsn)
    THEN RedoFrom(d, records, i + 1, redo_after_lsn, n)
    ELSE Only({ Only({ Only({
             IF ~InFile(d1, rec.page_id) THEN <<d1, n, TRUE>>
             ELSE RedoFrom(SetPageData(d1, rec.page_id, rec.data), records,
                           i + 1, redo_after_lsn, n + 1)
           : d1 \in {IF required > d.file_size THEN AllocateUpTo(d, rec.page_id) ELSE d} })
           : required \in {rec.page_id + PAGE_SIZE} })
           : rec \in {records[i]} })

\* WriteAheadLog::Recover: s with ret = pages_recovered.
Recover(s) ==
    Only({ Only({ Only({ Only({
        IF r[3] THEN [s EXCEPT !.d = r[1], !.thrown = TRUE]
        ELSE [s EXCEPT !.d = r[1],
                       !.w = IF r[2] > 0 THEN Truncate(w1) ELSE w1,
                       !.io = IF r[2] > 0 THEN Append(@, <<"sync">>) ELSE @,
                       !.ret = r[2]]
      : w1 \in {IF records # << >>
                THEN [s.w EXCEPT !.next_lsn = Back(records).lsn + 1] ELSE s.w} })
      : r \in {RedoFrom(s.d, records, 1, redo_after_lsn, 0)} })
      : redo_after_lsn \in {RedoAfterLsn(s.w, records)} })
      : records \in {ReadAllRecords(s.w)} })

\* ------------------------------------------------------------------------
\* bplus_tree.cpp : s.t = [root_offset, next_page_offset, wal_enabled]
\*
\* s.thrown : a C++ exception is propagating (nothing in the tree catches).
\* s.ub     : the code has dereferenced a null page pointer, has read a
\*            page through a view it was not written with, or has recursed
\*            without end; what the process does from there is not defined.
\* Once either is set the remaining calls of the operation do nothing.
\* ------------------------------------------------------------------------
Dead(s) == s.thrown \/ s.ub

\* The typed view (LeafPage or InternalPage, chosen by is_leaf) reads the
\* slots below num_keys; it reads what was written only if the page body
\* was written through the same view with that many slots.
ViewOK(page) ==
    \/ page.num_keys <= 0
    \/ /\ Len(page.keys) = page.num_keys
       /\ IF PageIsLeaf(page)
          THEN Len(page.vals) = page.num_keys /\ page.kids = << >>
          ELSE Len(page.kids) = page.num_keys /\ page.vals = << >>

MaxDepth == 8

\* A FetchPage or NewPage call of the tree that has returned in machine s,
\* as an entry of s.io: <<"pin", page_id, the pointer is not null, the
\* number of frames pinned on return>>.
PinEvent(s, page_id) ==
    <<"pin", page_id, s.ret # NullPtr,
      Cardinality({i \in DOMAIN s.p.frames : s.p.frames[i].pin_count > 0})>>

Pinned(s, page_id) ==
    IF Dead(s) THEN s ELSE [s EXCEPT !.io = Append(@, PinEvent(s, page_id))]

\* PinPage where the caller tests the pointer for null.
PinPage(s, page_id) ==
    IF Dead(s) THEN [s EXCEPT !.ret = NullPtr]
    ELSE Pinned(FetchPage(s, page_id), page_id)

\* PinPage where the caller uses the pointer without a test.
Pin(s, page_id) ==
    IF Dead(s) THEN s
    ELSE IF page_id < PAGE_SIZE THEN [s EXCEPT !.ub = TRUE]
    ELSE Only({
             IF r.thrown THEN r
             ELSE IF r.ret = NullPtr THEN [r EXCEPT !.ub = TRUE]
             ELSE IF ~ViewOK(r.p.frames[r.ret].data) THEN [r EXCEPT !.ub = TRUE]
             ELSE r
           : r \in {Pinned(FetchPage(s, page_id), page_id)} })

UnpinPage(s, page_id, dirty) ==
    IF Dead(s) THEN s ELSE UnpinPagePool(s, page_id, dirty)

\* The page behind a pointer obtained from PinPage / AllocPage.
PinnedPage(s, page_id) ==
    IF page_id \in DOMAIN s.p.page_table
    THEN s.p.frames[s.p.page_table[page_id]].data ELSE ZeroPage

\* A write through such a pointer.
Store(s, page_id, page) ==
    IF Dead(s) \/ page_id \notin DOMAIN s.p.page_table THEN s
    ELSE [s EXCEPT !.p.frames[s.p.page_table[page_id]].data = page]

\* ret = the pointer, ret2 = page_id.
AllocPage(s) ==
    IF Dead(s) THEN [s EXCEPT !.ret = NullPtr]
    ELSE Only({
             [Pinned(s1, s1.ret2) EXCEPT !.t.next_page_offset = s1.d.next]
           : s1 \in {NewPage(s)} })

\* AllocPage where the caller uses the pointer without a test.
Alloc(s) ==
    Only({
        IF ~Dead(s1) /\ s1.ret = NullPtr THEN [s1 EXCEPT !.ub = TRUE] ELSE s1
      : s1 \in {AllocPage(s)} })

\* DeallocPage that links the page into the free list and leaves its frame
\* in the pool.
DeallocPageKeepsFrame(s, page_id) ==
    IF Dead(s) THEN s
    ELSE IF FreeWild(s.d, page_id) THEN [s EXCEPT !.ub = TRUE]
    ELSE [s EXCEPT !.d = FreePage(s.d, page_id)]

\* DeallocPage that drops the frame and leaves the page off the free list.
DeallocPageLeaks(s, page_id) ==
    IF Dead(s) THEN s ELSE DeletePage(s, page_id)

DeallocPage(s, page_id) ==
    IF Dead(s) THEN s
    ELSE Only({
             IF FreeWild(s1.d, page_id) THEN [s1 EXCEPT !.ub = TRUE]
             ELSE [s1 EXCEPT !.d = FreePage(s1.d, page_id)]
           : s1 \in {DeletePage(s, page_id)} })

\* WriteMetadata that stores nothing.
WriteMetadataSkipped(s) == s

WriteMetadata(s) ==
    IF Dead(s) THEN s
    ELSE [s EXCEPT !.d.root = s.t.root_offset,
                   !.d.next = s.t.next_page_offset,
                   !.io = Append(@, <<"msync_meta">>)]

\* BPlusTree::ReadMetadata: the tree members loaded from page 0.
ReadMetadata(s) ==
    IF s.d.file_size < PAGE_SIZE THEN s
    ELSE Only({ Only({
             IF root # INVALID_PAGE_ID /\ (root < PAGE_SIZE \/ root >= s.d.file_size)
             THEN [s EXCEPT !.t.root_offset = INVALID_PAGE_ID,
                            !.t.next_page_offset = PAGE_SIZE]
             ELSE [s EXCEPT !.t.root_offset = root, !.t.next_page_offset = next]
           : next \in {IF s.d.next < PAGE_SIZE THEN PAGE_SIZE ELSE s.d.next} })
           : root \in {s.d.root} })

\* Insert pads the C string into a zeroed DATA_SIZE buffer: the buffer is
\* [bytes, zeros], bytes followed by `zeros` zero bytes.  A payload is a
\* sequence of non-zero bytes.
Pad(data) ==
    Only({ Only({
        [bytes |-> copied, zeros |-> DATA_SIZE - Len(copied)]
      : copied \in {SubSeq(data, 1, Min(n, Len(data)))} })
      : n \in {Min(Len(data) + 1, DATA_SIZE)} })

\* Trim without the strnlen: the whole DATA_SIZE buffer is handed out.
TrimKeepsPadding(buf) == buf.bytes \o [i \in 1..buf.zeros |-> 0]

\* Search(key, std::string&): strnlen(buf, DATA_SIZE) bytes of the buffer.
Trim(buf) == buf.bytes

\* while (i < n && key >= node.KeyAt(i)) ++i;
RECURSIVE ChildIndexFrom(_, _, _)
ChildIndexFrom(page, key, i) ==
    IF i < NumKeys(page) /\ key >= KeyAt(page, i)
    THEN ChildIndexFrom(page, key, i + 1) ELSE i

ChildIndex(page, key) == ChildIndexFrom(page, key, 0)

\* for (i = 0; i < n; ++i) if (leaf.KeyAt(i) == key) ... ; -1 if none.
RECURSIVE FindKeyFrom(_, _, _)
FindKeyFrom(page, key, i) ==
    IF i >= NumKeys(page) THEN -1
    ELSE IF KeyAt(page, i) = key THEN i
    ELSE FindKeyFrom(page, key, i + 1)

\* The scan started at slot 1.
FindKeySkipsFirst(page, key) == FindKeyFrom(page, key, 1)
FindKey(page, key) == FindKeyFrom(page, key, 0)

\* ---- Search ----
\* The descent that unpins a node only after it has pinned the child.
RECURSIVE SearchLeafLoopHoldsParent(_, _, _, _)
SearchLeafLoopHoldsParent(s, current, key, depth) ==
    Only({
        IF ~ViewOK(page) THEN [s EXCEPT !.ub = TRUE, !.ret = INVALID_PAGE_ID]
        ELSE IF PageIsLeaf(page)
        THEN [UnpinPage(s, current, FALSE) EXCEPT !.ret = current]
        ELSE Only({
                 IF child < PAGE_SIZE
                 THEN [UnpinPage(s, current, FALSE) EXCEPT !.ret = INVALID_PAGE_ID]
                 ELSE IF depth >= MaxDepth THEN [s EXCEPT !.ub = TRUE, !.ret = INVALID_PAGE_ID]
                 ELSE Only({
                          IF s2.ret = NullPtr
                          THEN [UnpinPage(s2, current, FALSE) EXCEPT !.ret = INVALID_PAGE_ID]
                          ELSE SearchLeafLoopHoldsParent(UnpinPage(s2, current, FALSE),
                                                         child, key, depth + 1)
                        : s2 \in {PinPage(s, child)} })
               : child \in {ChildAt(page, ChildIndex(page, key))} })
      : page \in {PinnedPage(s, current)} })

RECURSIVE SearchLeafLoop(_, _, _, _)
SearchLeafLoop(s, current, key, depth) ==
    Only({
        IF ~ViewOK(page) THEN [s EXCEPT !.ub = TRUE, !.ret = INVALID_PAGE_ID]
        ELSE IF PageIsLeaf(page)
        THEN [UnpinPage(s, current, FALSE) EXCEPT !.ret = current]
        ELSE Only({ Only({
                 IF child < PAGE_SIZE THEN [s1 EXCEPT !.ret = INVALID_PAGE_ID]
                 ELSE IF depth >= MaxDepth THEN [s1 EXCEPT !.ub = TRUE, !.ret = INVALID_PAGE_ID]
                 ELSE Only({
                          IF s2.ret = NullPtr THEN [s2 EXCEPT !.ret = INVALID_PAGE_ID]
                          ELSE SearchLeafLoop(s2, child, key, depth + 1)
                        : s2 \in {PinPage(s1, child)} })
               : s1 \in {UnpinPage(s, current, FALSE)} })
               : child \in {ChildAt(page, ChildIndex(page, key))} })
      : page \in {PinnedPage(s, current)} })

\* SearchLeaf that returns with the leaf still pinned.
SearchLeafKeepsPin(s, key) ==
    IF s.t.root_offset = INVALID_PAGE_ID THEN [s EXCEPT !.ret = INVALID_PAGE_ID]
    ELSE Only({
             IF s1.ret = NullPtr THEN [s1 EXCEPT !.ret = INVALID_PAGE_ID]
             ELSE Only({
                      IF Dead(s2) \/ s2.ret = INVALID_PAGE_ID THEN s2
                      ELSE [PinPage(s2, s2.ret) EXCEPT !.ret = s2.ret]
                    : s2 \in {SearchLeafLoop(s1, s.t.root_offset, key, 0)} })
           : s1 \in {PinPage(s, s.t.root_offset)} })

SearchLeaf(s, key) ==
    IF s.t.root_offset = INVALID_PAGE_ID THEN [s EXCEPT !.ret = INVALID_PAGE_ID]
    ELSE Only({
             IF s1.ret = NullPtr THEN [s1 EXCEPT !.ret = INVALID_PAGE_ID]
             ELSE SearchLeafLoop(s1, s.t.root_offset, key, 0)
           : s1 \in {PinPage(s, s.t.root_offset)} })

\* Search(key, char* data_out): ret = the status, ret2 = the buffer.
SearchBuf(s, key) ==
    Only({ Only({
        IF Dead(s1) THEN s1
        ELSE IF leaf_off = INVALID_PAGE_ID THEN [s1 EXCEPT !.ret = "NotFound"]
        ELSE Only({
                 IF s2.ret = NullPtr THEN [s2 EXCEPT !.ret = "IOError"]
                 ELSE Only({ Only({ Only({
                          IF ~ViewOK(leaf) \/ ~PageIsLeaf(leaf) THEN [s2 EXCEPT !.ub = TRUE]
                          ELSE IF i # -1
                          THEN [s3 EXCEPT !.ret = "OK", !.ret2 = leaf.vals[i + 1]]
                          ELSE [s3 EXCEPT !.ret = "NotFound"]
                        : s3 \in {UnpinPage(s2, leaf_off, FALSE)} })
                        : i \in {FindKey(leaf, key)} })
                        : leaf \in {PinnedPage(s2, leaf_off)} })
               : s2 \in {PinPage(s1, leaf_off)} })
      : leaf_off \in {s1.ret} })
      : s1 \in {SearchLeaf(s, key)} })

\* Search(key, std::string& value_out): ret = the status, ret2 = the value.
Search(s, key) ==
    Only({
        IF ~Dead(s1) /\ s1.ret = "OK" THEN [s1 EXCEPT !.ret2 = Trim(s1.ret2)] ELSE s1
      : s1 \in {SearchBuf(s, key)} })

\* ---- Insert ----
InsertAt(seq, i, x) == SubSeq(seq, 1, i - 1) \o <<x>> \o SubSeq(seq, i, Len(seq))

\* i = n - 1; while (i >= 0 && KeyAt(i) > key) --i;   the slot is i + 1.
RECURSIVE ShiftPosFrom(_, _, _)
ShiftPosFrom(keys, key, i) ==
    IF i >= 0 /\ keys[i + 1] > key THEN ShiftPosFrom(keys, key, i - 1) ELSE i + 1

ShiftPos(keys, key) == ShiftPosFrom(keys, key, Len(keys) - 1)

\* std::lower_bound / while (pos < size && keys[pos] < key) ++pos;
RECURSIVE LowerBoundFrom(_, _, _)
LowerBoundFrom(keys, key, pos) ==
    IF pos < Len(keys) /\ keys[pos + 1] < key
    THEN LowerBoundFrom(keys, key, pos + 1) ELSE pos

LowerBound(keys, key) == LowerBoundFrom(keys, key, 0)

\* The leaf split point.
LeafSplitMid(size) == (size + 1) \div 2

\* ret = did the leaf split, ret2 = split_key, ret3 = new_leaf_off.
InsertIntoLeaf(s, leaf_off, key, data) ==
    Only({ Only({ Only({ Only({
        IF Dead(s1) THEN s1
        ELSE IF found # -1
        THEN [UnpinPage(Store(s1, leaf_off, SetData(leaf, found, data)),
                        leaf_off, TRUE) EXCEPT !.ret = FALSE]
        ELSE IF n < LEAF_MAX_KEYS
        THEN Only({ Only({
                 [UnpinPage(Store(s1, leaf_off, MkLeaf(recs, NextLeaf(leaf))),
                            leaf_off, TRUE) EXCEPT !.ret = FALSE]
               : recs \in {InsertAt(Records(leaf), slot + 1, <<key, data>>)} })
               : slot \in {ShiftPos(leaf.keys, key)} })
        ELSE Only({ Only({ Only({ Only({ Only({ Only({ Only({ Only({ Only({ Only({ Only({
                 [s8 EXCEPT !.ret = TRUE, !.ret2 = split_key, !.ret3 = new_leaf_off]
               : s8 \in {UnpinPage(s7, new_leaf_off, FALSE)} })
               : split_key \in {KeyAt(PinnedPage(s7, new_leaf_off), 0)} })
               : s7 \in {Pin(s6, new_leaf_off)} })
               : s6 \in {UnpinPage(s5, leaf_off, TRUE)} })
               : s5 \in {Store(s4, leaf_off, MkLeaf(SubSeq(recs, 1, mid), new_leaf_off))} })
               : s4 \in {UnpinPage(s3, new_leaf_off, TRUE)} })
               : s3 \in {Store(s2, new_leaf_off,
                               MkLeaf(SubSeq(recs, mid + 1, Len(recs)), NextLeaf(leaf)))} })
               : new_leaf_off \in {s2.ret2} })
               : s2 \in {Alloc(s1)} })
               : mid \in {LeafSplitMid(Len(recs))} })
               : recs \in {InsertAt(Records(leaf), LowerBound(leaf.keys, key) + 1,
                                    <<key, data>>)} })
      : found \in {FindKey(leaf, key)} })
      : n \in {NumKeys(leaf)} })
      : leaf \in {PinnedPage(s1, leaf_off)} })
      : s1 \in {Pin(s, leaf_off)} })

\* The internal split point.
InternalSplitMid(size) == size \div 2

\* InsertIntoInternal that leaves the parent alone and hands the child's
\* split on to its own caller.
InsertIntoInternalSkipped(s, node_off, key, child_off) ==
    [s EXCEPT !.ret = TRUE, !.ret2 = key, !.ret3 = child_off]

\* ret = did the node split, ret2 = split_key, ret3 = new_node_off.
InsertIntoInternal(s, node_off, key, child_off) ==
    Only({ Only({ Only({
        IF Dead(s1) THEN s1
        ELSE IF n < INTERNAL_MAX_KEYS
        THEN Only({ Only({ Only({
                 [UnpinPage(Store(s1, node_off, MkInternal(ks, cs)), node_off, TRUE)
                     EXCEPT !.ret = FALSE]
               : cs \in {InsertAt(Children(node), slot + 2, child_off)} })
               : ks \in {InsertAt(node.keys, slot + 1, key)} })
               : slot \in {ShiftPos(node.keys, key)} })
        ELSE Only({ Only({ Only({ Only({ Only({ Only({ Only({ Only({ Only({ Only({ Only({ Only({ Only({
                 [s8 EXCEPT !.ret = TRUE, !.ret2 = split_key, !.ret3 = new_node_off]
               : s8 \in {UnpinPage(s7, node_off, TRUE)} })
               : s7 \in {Store(s6, node_off,
                               MkInternal(SubSeq(keys, 1, mid), SubSeq(children, 1, mid + 1)))} })
               : s6 \in {Pin(s5, node_off)} })
               : s5 \in {UnpinPage(s4, new_node_off, TRUE)} })
               : s4 \in {Store(s3, new_node_off,
                               MkInternal(SubSeq(keys, mid + 2, Len(keys)),
                                          SubSeq(children, mid + 2, Len(children))))} })
               : new_node_off \in {s3.ret2} })
               : s3 \in {Alloc(s2)} })
               : split_key \in {keys[mid + 1]} })
               : mid \in {InternalSplitMid(Len(keys))} })
               : children \in {InsertAt(Children(node), pos + 2, child_off)} })
               : keys \in {InsertAt(node.keys, pos + 1, key)} })
               : pos \in {LowerBound(node.keys, key)} })
               : s2 \in {UnpinPage(s1, node_off, FALSE)} })
      : n \in {NumKeys(node)} })
      : node \in {PinnedPage(s1, node_off)} })
      : s1 \in {Pin(s, node_off)} })

RECURSIVE InsertRecursive(_, _, _, _, _)
InsertRecursive(s, node_off, key, data, depth) ==
    IF Dead(s) THEN s
    ELSE IF depth > MaxDepth THEN [s EXCEPT !.ub = TRUE]
    ELSE
    Only({ Only({
        IF Dead(s1) THEN s1
        ELSE IF PageIsLeaf(page)
        THEN InsertIntoLeaf(UnpinPage(s1, node_off, FALSE), node_off, key, data)
        ELSE Only({ Only({ Only({ Only({
                 IF Dead(s3) THEN s3
                 ELSE IF ~s3.ret THEN s3
                 ELSE InsertIntoInternal(s3, node_off, s3.ret2, s3.ret3)
               : s3 \in {InsertRecursive(s2, child, key, data, depth + 1)} })
               : s2 \in {UnpinPage(s1, node_off, FALSE)} })
               : child \in {ChildAt(page, i)} })
               : i \in {ChildIndex(page, key)} })
      : page \in {PinnedPage(s1, node_off)} })
      : s1 \in {Pin(s, node_off)} })

\* Insert(key, data): ret = the status.
Insert(s, key, data) ==
    Only({
        IF s.t.root_offset = INVALID_PAGE_ID
        THEN Only({ Only({
                 IF Dead(s1) THEN s1
                 ELSE IF s1.ret = NullPtr THEN [s1 EXCEPT !.ret = "IOError"]
                 ELSE Only({ Only({ Only({
                          [s4 EXCEPT !.ret = "OK"]
                        : s4 \in {WriteMetadata([s3 EXCEPT !.t.root_offset = off])} })
                        : s3 \in {UnpinPage(s2, off, TRUE)} })
                        : s2 \in {Store(s1, off, MkLeaf(<< <<key, padded>> >>, INVALID_PAGE_ID))} })
               : off \in {s1.ret2} })
               : s1 \in {AllocPage(s)} })
        ELSE Only({ Only({ Only({
                 IF Dead(s1) THEN s1
                 ELSE IF ~s1.ret THEN [s1 EXCEPT !.ret = "OK"]
                 ELSE Only({ Only({
                          IF Dead(s2) THEN s2
                          ELSE IF s2.ret = NullPtr THEN [s2 EXCEPT !.ret = "IOError"]
                          ELSE Only({ Only({ Only({
                                   [s5 EXCEPT !.ret = "OK"]
                                 : s5 \in {WriteMetadata([s4 EXCEPT !.t.root_offset = new_root])} })
                                 : s4 \in {UnpinPage(s3, new_root, TRUE)} })
                                 : s3 \in {Store(s2, new_root,
                                                 MkInternal(<<split_key>>,
                                                            <<s.t.root_offset, new_off>>))} })
                        : new_root \in {s2.ret2} })
                        : s2 \in {AllocPage(s1)} })
               : new_off \in {s1.ret3} })
               : split_key \in {s1.ret2} })
               : s1 \in {InsertRecursive(s, s.t.root_offset, key, padded, 0)} })
      : padded \in {Pad(data)} })

\* ---- Range query ----
\* The for loop over one leaf: <<results', done>>.
\* The index at which the for loop over the slots of a leaf ends: the first
\* slot whose key is above upper, or num_keys.
ScanEnd(leaf, upper) ==
    IF \E i \in 0..NumKeys(leaf) - 1 : KeyAt(leaf, i) > upper
    THEN CHOOSE i \in 0..NumKeys(leaf) - 1 :
             /\ KeyAt(leaf, i) > upper
             /\ \A j \in 0..i - 1 : KeyAt(leaf, j) <= upper
    ELSE Max(NumKeys(leaf), 0)

ScanLeaf(leaf, lower, upper, results) ==
    Only({
        <<results \o SelectSeq([i \in 1..end |-> <<KeyAt(leaf, i - 1), Trim(leaf.vals[i])>>],
                               LAMBDA rec : rec[1] >= lower),
          end < NumKeys(leaf)>>
      : end \in {ScanEnd(leaf, upper)} })

\* One turn of the while loop over the leaf chain.  x = [s, leaf_off,
\* results, done]; done is set when the loop has been left, with the status
\* in x.s.ret and the results in x.s.ret2.
RangeStep(x, lower, upper) ==
    Only({ Only({ Only({
        IF x.done THEN x
        ELSE IF ~(leaf_off # INVALID_PAGE_ID /\ leaf_off >= PAGE_SIZE)
        THEN [x EXCEPT !.done = TRUE, !.s = [s EXCEPT !.ret = "OK", !.ret2 = results]]
        ELSE Only({
                 IF Dead(s1) THEN [x EXCEPT !.done = TRUE, !.s = s1]
                 ELSE IF s1.ret = NullPtr
                 THEN [x EXCEPT !.done = TRUE,
                                !.s = [s1 EXCEPT !.ret = "OK", !.ret2 = results]]
                 ELSE Only({
                          IF ~ViewOK(leaf) \/ (NumKeys(leaf) > 0 /\ ~PageIsLeaf(leaf))
                          THEN [x EXCEPT !.done = TRUE, !.s = [s1 EXCEPT !.ub = TRUE]]
                          ELSE Only({ Only({ Only({
                                   IF r[2]
                                   THEN [x EXCEPT !.done = TRUE,
                                                  !.s = [s2 EXCEPT !.ret = "OK", !.ret2 = r[1]]]
                                   ELSE [s |-> s2, leaf_off |-> next, results |-> r[1],
                                         done |-> FALSE]
                                 : s2 \in {UnpinPage(s1, leaf_off, FALSE)} })
                                 : next \in {NextLeaf(leaf)} })
                                 : r \in {ScanLeaf(leaf, lower, upper, results)} })
                        : leaf \in {PinnedPage(s1, leaf_off)} })
               : s1 \in {PinPage(s, leaf_off)} })
      : results \in {x.results} })
      : leaf_off \in {x.leaf_off} })
      : s \in {x.s} })

\* n turns of the loop.
RECURSIVE RangeSteps(_, _, _, _)
RangeSteps(x, lower, upper, n) ==
    IF x.done \/ n <= 0 THEN x
    ELSE IF n = 1 THEN RangeStep(x, lower, upper)
    ELSE Only({
             IF x1.done THEN x1 ELSE RangeSteps(x1, lower, upper, n - n \div 2)
           : x1 \in {RangeSteps(x, lower, upper, n \div 2)} })

\* RangeLoop that never follows next_leaf: it reads the first leaf only.
RangeLoopOneLeaf(s, leaf_off, lower, upper) ==
    Only({
        IF x.done THEN x.s ELSE [x.s EXCEPT !.ret = "OK", !.ret2 = x.results]
      : x \in {RangeStep([s |-> s, leaf_off |-> leaf_off, results |-> << >>,
                          done |-> FALSE], lower, upper)} })

\* The loop; a chain that does not end within the pages of the file is a
\* cycle, on which the loop never ends.
RangeLoop(s, leaf_off, lower, upper) ==
    Only({
        IF x.done THEN x.s ELSE [x.s EXCEPT !.ub = TRUE]
      : x \in {RangeSteps([s |-> s, leaf_off |-> leaf_off, results |-> << >>,
                           done |-> FALSE],
                          lower, upper, Len(s.d.pages) + 2)} })

\* RangeQuery(lower, upper, results): ret = the status, ret2 = results.
RangeQuery(s, lower, upper) ==
    IF lower > upper THEN [s EXCEPT !.ret = "InvalidArg", !.ret2 = << >>]
    ELSE IF s.t.root_offset = INVALID_PAGE_ID THEN [s EXCEPT !.ret = "OK", !.ret2 = << >>]
    ELSE Only({
             IF Dead(s1) THEN s1
             ELSE IF s1.ret = INVALID_PAGE_ID THEN [s1 EXCEPT !.ret = "OK", !.ret2 = << >>]
             ELSE RangeLoop(s1, s1.ret, lower, upper)
           : s1 \in {SearchLeaf(s, lower)} })

\* ---- Delete ----
RemoveAt(seq, i) == SubSeq(seq, 1, i - 1) \o SubSeq(seq, i + 1, Len(seq))

\* The underflow tests of DeleteFromLeaf and DeleteRecursive.
\* A root leaf that is never reported underful.
LeafUnderfulBelowRoot(s, leaf_off, n) ==
    leaf_off # s.t.root_offset /\ n < LEAF_MIN_KEYS

LeafUnderful(s, leaf_off, n) ==
    IF leaf_off = s.t.root_offset THEN n = 0 ELSE n < LEAF_MIN_KEYS

InternalUnderful(s, node_off, nk) ==
    IF node_off = s.t.root_offset THEN nk = 0 ELSE nk < INTERNAL_MIN_KEYS

\* ret = is the leaf underful now.
DeleteFromLeaf(s, leaf_off, key) ==
    Only({ Only({ Only({ Only({
        IF Dead(s1) THEN s1
        ELSE IF found = -1
        THEN [UnpinPage(s1, leaf_off, FALSE) EXCEPT !.ret = FALSE]
        ELSE Only({ Only({
                 [s3 EXCEPT !.ret = LeafUnderful(s3, leaf_off, n - 1)]
               : s3 \in {UnpinPage(s2, leaf_off, TRUE)} })
               : s2 \in {Store(s1, leaf_off,
                               MkLeaf(RemoveAt(Records(leaf), found + 1), NextLeaf(leaf)))} })
      : found \in {FindKey(leaf, key)} })
      : n \in {NumKeys(leaf)} })
      : leaf \in {PinnedPage(s1, leaf_off)} })
      : s1 \in {Pin(s, leaf_off)} })

\* The removal of the key after merge_key_idx (if there is one) in place of
\* key merge_key_idx.
RemoveFromParentNextKey(s, parent_off, merge_key_idx) ==
    Only({ Only({ Only({
        UnpinPage(s2, parent_off, TRUE)
      : s2 \in {Store(s1, parent_off,
                      MkInternal(RemoveAt(parent.keys,
                                          Min(Len(parent.keys), merge_key_idx + 2)),
                                 RemoveAt(Children(parent), merge_key_idx + 2)))} })
      : parent \in {PinnedPage(s1, parent_off)} })
      : s1 \in {Pin(s, parent_off)} })

\* Remove key merge_key_idx and the child after it from the parent.
RemoveFromParent(s, parent_off, merge_key_idx) ==
    Only({ Only({ Only({
        UnpinPage(s2, parent_off, TRUE)
      : s2 \in {Store(s1, parent_off,
                      MkInternal(RemoveAt(parent.keys, merge_key_idx + 1),
                                 RemoveAt(Children(parent), merge_key_idx + 2)))} })
      : parent \in {PinnedPage(s1, parent_off)} })
      : s1 \in {Pin(s, parent_off)} })

\* A borrow that leaves the separator of the parent as it was.
SetParentKeyKept(s, parent_off, idx, key) == s

\* p2.SetKeyAt(idx, key) on the re-pinned parent.
SetParentKey(s, parent_off, idx, key) ==
    Only({ Only({ Only({
        UnpinPage(s2, parent_off, TRUE)
      : s2 \in {Store(s1, parent_off, [p2 EXCEPT !.keys[idx + 1] = key])} })
      : p2 \in {PinnedPage(s1, parent_off)} })
      : s1 \in {Pin(s, parent_off)} })

\* The sibling tests of FixLeafChild / FixInternalChild.
\* Siblings that lend when they hold exactly the minimum.
LeafCanLendAtMin(n) == n >= LEAF_MIN_KEYS
LeafCanLend(n) == n > LEAF_MIN_KEYS
InternalCanLendAtMin(n) == n >= INTERNAL_MIN_KEYS
InternalCanLend(n) == n > INTERNAL_MIN_KEYS

FixLeafMerge(s, parent_off, child_idx, child_off) ==
    Only({ Only({ Only({ Only({ Only({ Only({ Only({ Only({ Only({ Only({ Only({ Only({ Only({ Only({
        IF Dead(s4) THEN s4 ELSE RemoveFromParent(s8, parent_off, merge_key_idx)
      : s8 \in {DeallocPage(s7, right_off)} })
      : s7 \in {UnpinPage(s6, right_off, FALSE)} })
      : s6 \in {UnpinPage(s5, left_off, TRUE)} })
      : s5 \in {Store(s4, left_off,
                      MkLeaf(Records(left) \o Records(right), NextLeaf(right)))} })
      : right \in {PinnedPage(s4, right_off)} })
      : left \in {PinnedPage(s4, left_off)} })
      : s4 \in {Pin(s3, right_off)} })
      : s3 \in {Pin(s2, left_off)} })
      : s2 \in {UnpinPage(s1, parent_off, FALSE)} })
      : merge_key_idx \in {IF child_idx > 0 THEN child_idx - 1 ELSE child_idx} })
      : right_off \in {IF child_idx > 0 THEN child_off ELSE ChildAt(parent, child_idx + 1)} })
      : left_off \in {IF child_idx > 0 THEN ChildAt(parent, child_idx - 1) ELSE child_off} })
      : parent \in {PinnedPage(s1, parent_off)} })
      : s1 \in {Pin(s, parent_off)} })

FixLeafBorrowRight(s, parent_off, child_idx, child_off) ==
    Only({ Only({ Only({
        IF Dead(s1) THEN s1
        ELSE IF child_idx < parent_keys
        THEN Only({ Only({ Only({ Only({ Only({
                 IF Dead(s3) THEN s3
                 ELSE IF LeafCanLend(right_n)
                 THEN Only({ Only({ Only({ Only({ Only({ Only({ Only({ Only({
                          SetParentKey(s8, parent_off, child_idx, new_right_first)
                        : s8 \in {UnpinPage(s7, child_off, TRUE)} })
                        : s7 \in {Store(s6, child_off,
                                        MkLeaf(Append(Records(child), rec), NextLeaf(child)))} })
                        : child \in {PinnedPage(s6, child_off)} })
                        : s6 \in {Pin(s5, child_off)} })
                        : s5 \in {UnpinPage(s4, right_off, TRUE)} })
                        : new_right_first \in {KeyAt(PinnedPage(s4, right_off), 0)} })
                        : s4 \in {Store(s3, right_off,
                                        MkLeaf(Tail(Records(right)), NextLeaf(right)))} })
                        : rec \in {Records(right)[1]} })
                 ELSE FixLeafMerge(UnpinPage(s3, right_off, FALSE),
                                   parent_off, child_idx, child_off)
               : right_n \in {NumKeys(right)} })
               : right \in {PinnedPage(s3, right_off)} })
               : s3 \in {Pin(s2, right_off)} })
               : s2 \in {UnpinPage(s1, parent_off, FALSE)} })
               : right_off \in {ChildAt(parent, child_idx + 1)} })
        ELSE FixLeafMerge(UnpinPage(s1, parent_off, FALSE), parent_off, child_idx, child_off)
      : parent_keys \in {NumKeys(parent)} })
      : parent \in {PinnedPage(s1, parent_off)} })
      : s1 \in {Pin(s, parent_off)} })

FixLeafChild(s, parent_off, child_idx) ==
    Only({ Only({ Only({
        IF Dead(s1) THEN s1
        ELSE IF child_idx > 0
        THEN Only({ Only({ Only({ Only({ Only({
                 IF Dead(s3) THEN s3
                 ELSE IF LeafCanLend(left_n)
                 THEN Only({ Only({ Only({ Only({ Only({ Only({ Only({
                          SetParentKey(s8, parent_off, child_idx - 1, rec[1])
                        : s8 \in {UnpinPage(s7, child_off, TRUE)} })
                        : s7 \in {Store(s6, child_off,
                                        MkLeaf(<<rec>> \o Records(child), NextLeaf(child)))} })
                        : child \in {PinnedPage(s6, child_off)} })
                        : s6 \in {Pin(s5, child_off)} })
                        : s5 \in {UnpinPage(s4, left_off, TRUE)} })
                        : s4 \in {Store(s3, left_off,
                                        MkLeaf(SubSeq(Records(left), 1, left_n - 1),
                                               NextLeaf(left)))} })
                        : rec \in {Records(left)[left_n]} })
                 ELSE FixLeafBorrowRight(UnpinPage(s3, left_off, FALSE),
                                         parent_off, child_idx, child_off)
               : left_n \in {NumKeys(left)} })
               : left \in {PinnedPage(s3, left_off)} })
               : s3 \in {Pin(s2, left_off)} })
               : s2 \in {UnpinPage(s1, parent_off, FALSE)} })
               : left_off \in {ChildAt(parent, child_idx - 1)} })
        ELSE FixLeafBorrowRight(UnpinPage(s1, parent_off, FALSE),
                                parent_off, child_idx, child_off)
      : child_off \in {ChildAt(parent, child_idx)} })
      : parent \in {PinnedPage(s1, parent_off)} })
      : s1 \in {Pin(s, parent_off)} })

FixInternalMerge(s, parent_off, child_idx, child_off) ==
    Only({ Only({ Only({ Only({ Only({ Only({ Only({ Only({ Only({ Only({ Only({ Only({ Only({ Only({ Only({
        IF Dead(s4) THEN s4 ELSE RemoveFromParent(s8, parent_off, merge_key_idx)
      : s8 \in {DeallocPage(s7, right_off)} })
      : s7 \in {UnpinPage(s6, right_off, FALSE)} })
      : s6 \in {UnpinPage(s5, left_off, TRUE)} })
      : s5 \in {Store(s4, left_off,
                      MkInternal(left.keys \o <<merge_key>> \o right.keys,
                                 Children(left) \o Children(right)))} })
      : right \in {PinnedPage(s4, right_off)} })
      : left \in {PinnedPage(s4, left_off)} })
      : s4 \in {Pin(s3, right_off)} })
      : s3 \in {Pin(s2, left_off)} })
      : s2 \in {UnpinPage(s1, parent_off, FALSE)} })
      : merge_key \in {KeyAt(parent, merge_key_idx)} })
      : merge_key_idx \in {IF child_idx > 0 THEN child_idx - 1 ELSE child_idx} })
      : right_off \in {IF child_idx > 0 THEN child_off ELSE ChildAt(parent, child_idx + 1)} })
      : left_off \in {IF child_idx > 0 THEN ChildAt(parent, child_idx - 1) ELSE child_off} })
      : parent \in {PinnedPage(s1, parent_off)} })
      : s1 \in {Pin(s, parent_off)} })

FixInternalBorrowRight(s, parent_off, child_idx, child_off) ==
    Only({ Only({ Only({
        IF Dead(s1) THEN s1
        ELSE IF child_idx < parent_keys
        THEN Only({ Only({ Only({ Only({ Only({ Only({
                 IF Dead(s3) THEN s3
                 ELSE IF InternalCanLend(right_n)
                 THEN Only({ Only({ Only({ Only({ Only({ Only({ Only({ Only({
                          SetParentKey(s8, parent_off, child_idx, borrowed_key)
                        : s8 \in {UnpinPage(s7, child_off, TRUE)} })
                        : s7 \in {Store(s6, child_off,
                                        MkInternal(Append(child.keys, parent_key),
                                                   Append(Children(child), borrowed_child)))} })
                        : child \in {PinnedPage(s6, child_off)} })
                        : s6 \in {Pin(s5, child_off)} })
                        : s5 \in {UnpinPage(s4, right_off, TRUE)} })
                        : s4 \in {Store(s3, right_off,
                                        MkInternal(Tail(right.keys), Tail(Children(right))))} })
                        : borrowed_child \in {ChildAt(right, 0)} })
                        : borrowed_key \in {KeyAt(right, 0)} })
                 ELSE FixInternalMerge(UnpinPage(s3, right_off, FALSE),
                                       parent_off, child_idx, child_off)
               : right_n \in {NumKeys(right)} })
               : right \in {PinnedPage(s3, right_off)} })
               : s3 \in {Pin(s2, right_off)} })
               : s2 \in {UnpinPage(s1, parent_off, FALSE)} })
               : parent_key \in {KeyAt(parent, child_idx)} })
               : right_off \in {ChildAt(parent, child_idx + 1)} })
        ELSE FixInternalMerge(UnpinPage(s1, parent_off, FALSE),
                              parent_off, child_idx, child_off)
      : parent_keys \in {NumKeys(parent)} })
      : parent \in {PinnedPage(s1, parent_off)} })
      : s1 \in {Pin(s, parent_off)} })

FixInternalChild(s, parent_off, child_idx) ==
    Only({ Only({ Only({
        IF Dead(s1) THEN s1
        ELSE IF child_idx > 0
        THEN Only({ Only({ Only({ Only({ Only({ Only({
                 IF Dead(s3) THEN s3
                 ELSE IF InternalCanLend(left_n)
                 THEN Only({ Only({ Only({ Only({ Only({ Only({ Only({ Only({
                          SetParentKey(s8, parent_off, child_idx - 1, borrowed_key)
                        : s8 \in {UnpinPage(s7, child_off, TRUE)} })
                        : s7 \in {Store(s6, child_off,
                                        MkInternal(<<parent_key>> \o child.keys,
                                                   <<borrowed_child>> \o Children(child)))} })
                        : child \in {PinnedPage(s6, child_off)} })
                        : s6 \in {Pin(s5, child_off)} })
                        : s5 \in {UnpinPage(s4, left_off, TRUE)} })
                        : s4 \in {Store(s3, left_off,
                                        MkInternal(SubSeq(left.keys, 1, left_n - 1),
                                                   SubSeq(Children(left), 1, left_n)))} })
                        : borrowed_child \in {ChildAt(left, left_n)} })
                        : borrowed_key \in {KeyAt(left, left_n - 1)} })
                 ELSE FixInternalBorrowRight(UnpinPage(s3, left_off, FALSE),
                                             parent_off, child_idx, child_off)
               : left_n \in {NumKeys(left)} })
               : left \in {PinnedPage(s3, left_off)} })
               : s3 \in {Pin(s2, left_off)} })
               : s2 \in {UnpinPage(s1, parent_off, FALSE)} })
               : parent_key \in {KeyAt(parent, child_idx - 1)} })
               : left_off \in {ChildAt(parent, child_idx - 1)} })
        ELSE FixInternalBorrowRight(UnpinPage(s1, parent_off, FALSE),
                                    parent_off, child_idx, child_off)
      : child_off \in {ChildAt(parent, child_idx)} })
      : parent \in {PinnedPage(s1, parent_off)} })
      : s1 \in {Pin(s, parent_off)} })

FixChild(s, parent_off, child_idx) ==
    Only({ Only({ Only({ Only({ Only({ Only({
        IF Dead(s3) THEN s3
        ELSE IF child_is_leaf THEN FixLeafChild(s4, parent_off, child_idx)
        ELSE FixInternalChild(s4, parent_off, child_idx)
      : s4 \in {UnpinPage(s3, child_off, FALSE)} })
      : child_is_leaf \in {PageIsLeaf(PinnedPage(s3, child_off))} })
      : s3 \in {Pin(s2, child_off)} })
      : s2 \in {UnpinPage(s1, parent_off, FALSE)} })
      : child_off \in {ChildAt(PinnedPage(s1, parent_off), child_idx)} })
      : s1 \in {Pin(s, parent_off)} })

\* ret = is the node underful now.
RECURSIVE DeleteRecursive(_, _, _, _)
DeleteRecursive(s, node_off, key, depth) ==
    IF Dead(s) THEN s
    ELSE IF depth > MaxDepth THEN [s EXCEPT !.ub = TRUE]
    ELSE
    Only({ Only({
        IF Dead(s1) THEN s1
        ELSE IF PageIsLeaf(page)
        THEN DeleteFromLeaf(UnpinPage(s1, node_off, FALSE), node_off, key)
        ELSE Only({ Only({ Only({ Only({
                 IF Dead(s3) THEN s3
                 ELSE IF s3.ret
                 THEN Only({ Only({ Only({ Only({
                          IF Dead(s6) THEN s6
                          ELSE [s6 EXCEPT !.ret = InternalUnderful(s6, node_off, nk)]
                        : s6 \in {UnpinPage(s5, node_off, FALSE)} })
                        : nk \in {NumKeys(PinnedPage(s5, node_off))} })
                        : s5 \in {Pin(s4, node_off)} })
                        : s4 \in {FixChild(s3, node_off, i)} })
                 ELSE [s3 EXCEPT !.ret = FALSE]
               : s3 \in {DeleteRecursive(s2, child, key, depth + 1)} })
               : s2 \in {UnpinPage(s1, node_off, FALSE)} })
               : child \in {ChildAt(page, i)} })
               : i \in {ChildIndex(page, key)} })
      : page \in {PinnedPage(s1, node_off)} })
      : s1 \in {Pin(s, node_off)} })

\* Delete(key): ret = the status.
Delete(s, key) ==
    IF s.t.root_offset = INVALID_PAGE_ID THEN [s EXCEPT !.ret = "NotFound"]
    ELSE
    Only({
        IF Dead(s0) THEN s0
        ELSE IF s0.ret # "OK" THEN [s0 EXCEPT !.ret = "NotFound"]
        ELSE
        Only({ Only({
            IF Dead(s1) THEN s1
            ELSE IF ~underful THEN [s1 EXCEPT !.ret = "OK"]
            ELSE Only({ Only({ Only({ Only({
                     IF Dead(s2) THEN s2
                     ELSE IF NumKeys(root) = 0
                     THEN Only({ Only({ Only({
                              [s5 EXCEPT !.ret = "OK"]
                            : s5 \in {WriteMetadata(s4)} })
                            : s4 \in {DeallocPage(s3, old_root)} })
                            : s3 \in {UnpinPage([s2 EXCEPT !.t.root_offset = new_root],
                                                old_root, FALSE)} })
                     ELSE [UnpinPage(s2, old_root, FALSE) EXCEPT !.ret = "OK"]
                   : new_root \in {IF PageIsLeaf(root) THEN INVALID_PAGE_ID ELSE ChildAt(root, 0)} })
                   : root \in {PinnedPage(s2, old_root)} })
                   : s2 \in {Pin(s1, old_root)} })
                   : old_root \in {s1.t.root_offset} })
          : underful \in {s1.ret} })
          : s1 \in {DeleteRecursive(s0, s0.t.root_offset, key, 0)} })
      : s0 \in {SearchBuf(s, key)} })

\* ------------------------------------------------------------------------
\* The program as a state machine.
\*
\*   disk, pool, wal, tree : the DiskManager file, the BufferPool members,
\*                           the WAL file and members, the BPlusTree members
\*   run   : "open" while a process holds the tree, "down" after a crash
\*   fault : "none"; "exception" after an uncaught C++ exception; "ub"
\*           after undefined behaviour.  A faulted process does nothing more.
\*   out   : what the last call returned
\*   io    : the file operations and the page pins of the last call, in
\*           order
\*   kv    : (history) the finite map the calls so far describe
\*   acked : (history) the keys inserted before the last flush_all_pages and
\*           not deleted since
\*   redo  : (history) the PAGE_WRITE records appended and flushed since
\*           the last completed checkpoint, oldest first
\*   tail  : (history) the PAGE_WRITE records appended and not yet flushed
\*   nops  : the number of calls made so far
\* ------------------------------------------------------------------------
VARIABLES disk, pool, wal, tree, run, fault, out, io, kv, acked, redo, tail, nops

vars == <<disk, pool, wal, tree, run, fault, out, io, kv, acked, redo, tail, nops>>

\* Bounds of the exploration.
MaxOps == 2
MaxWalOps == 4

\* The inputs the calls draw from.
Keys == {2, 3, 40, 3672}
Payloads == {<<7>>, <<8, 9>>}
Ranges == {<<2, 3>>, <<40, 3672>>, <<3, 2>>}
PoolSizes == {2, 4}

\* The machine the operators above work on, built from the variables.
MachineOf(d, p, w, t) ==
    [d |-> d, p |-> p, w |-> w, t |-> t, io |-> << >>,
     ret |-> 0, ret2 |-> 0, ret3 |-> 0, thrown |-> FALSE, ub |-> FALSE]

M == MachineOf(disk, pool, wal, tree)

FaultOf(s) == IF s.ub THEN "ub" ELSE IF s.thrown THEN "exception" ELSE "none"

\* The variables of the program after a call that ended in machine s.
Commit(s) ==
    /\ disk' = s.d
    /\ pool' = s.p
    /\ wal' = s.w
    /\ tree' = s.t
    /\ io' = s.io
    /\ fault' = FaultOf(s)

NoOut == [op |-> "none", key |-> 0, upper |-> 0, status |-> "none", value |-> << >>]

\* ---- BPlusTree::BPlusTree ----
\* On a file that does not exist yet.
CreateTree(pool_size, enable_wal) ==
    Only({ Only({
        IF Dead(s1) THEN s1 ELSE ReadMetadata(s1)
      : s1 \in {IF enable_wal THEN [Recover(s0) EXCEPT !.p.wal = TRUE] ELSE s0} })
      : s0 \in {MachineOf(NewDisk, NewPool(pool_size), NewWal,
                          [root_offset |-> INVALID_PAGE_ID,
                           next_page_offset |-> PAGE_SIZE,
                           wal_enabled |-> enable_wal])} })

\* On the files d and w a former process left.
OpenTree(d, w, pool_size, enable_wal) ==
    Only({ Only({
        IF Dead(s1) THEN s1 ELSE ReadMetadata(s1)
      : s1 \in {IF enable_wal THEN [Recover(s0) EXCEPT !.p.wal = TRUE] ELSE s0} })
      : s0 \in {MachineOf(d, NewPool(pool_size), IF enable_wal THEN OpenWal(w) ELSE w,
                          [root_offset |-> INVALID_PAGE_ID,
                           next_page_offset |-> PAGE_SIZE,
                           wal_enabled |-> enable_wal])} })

\* BPlusTree::Sync
Sync(s) == FlushAllPages(s)

\* Checkpoint that ends the checkpoint first and flushes the frames after.
CheckpointEndsFirst(s) ==
    IF ~s.t.wal_enabled THEN s
    ELSE FlushAllPages([s EXCEPT !.w = EndCheckpoint(BeginCheckpoint(s.w)[1])[1],
                                 !.io = Append(@, <<"wal_truncate">>)])

\* BPlusTree::Checkpoint.  The truncation of the log by EndCheckpoint is the
\* entry <<"wal_truncate">> of s.io.
Checkpoint(s) ==
    IF ~s.t.wal_enabled THEN s
    ELSE Only({ Only({
             IF Dead(s2) THEN s2
             ELSE [s2 EXCEPT !.w = EndCheckpoint(s2.w)[1],
                             !.io = Append(@, <<"wal_truncate">>)]
           : s2 \in {FlushAllPages(s1)} })
           : s1 \in {[s EXCEPT !.w = BeginCheckpoint(s.w)[1]]} })

\* ~BPlusTree without the FlushAllPages call.
CloseWithoutFlush(s) ==
    Only({
        IF Dead(s1) \/ ~s.t.wal_enabled THEN s1
        ELSE [s1 EXCEPT !.w = EndCheckpoint(s1.w)[1]]
      : s1 \in {WriteMetadata(s)} })

\* BPlusTree::~BPlusTree, then the destructors of the members: the WAL is
\* fsynced and closed, the data file msynced and unmapped.
Close(s) ==
    Only({
        IF Dead(s1) THEN s1
        ELSE [s1 EXCEPT !.w = IF s.t.wal_enabled THEN EndCheckpoint(s1.w)[1] ELSE @,
                        !.io = (IF s.t.wal_enabled THEN Append(@, <<"wal_truncate">>) ELSE @)
                                   \o << <<"sync">> >>]
      : s1 \in {FlushAllPages(WriteMetadata(s))} })

\* ---- Initial states ----
\* A tree starts empty; the initial states are the empty tree and the trees
\* that a run of Insert calls builds from it.  A workload is a sequence of
\* batches <<first, last, step>>, each inserting first, first + step, ...
\* up to last, with payload PayloadOf(key).
PayloadOf(key) == <<(key % 5) + 1>>

RECURSIVE LoadRange(_, _, _, _, _)
LoadRange(s, first, step, lo, hi) ==
    IF lo > hi THEN s
    ELSE IF lo = hi
    THEN [Insert(s, first + lo * step, PayloadOf(first + lo * step)) EXCEPT !.io = << >>]
    ELSE Only({ Only({
             IF s1.ub \in BOOLEAN THEN LoadRange(s1, first, step, mid + 1, hi) ELSE s1
           : s1 \in {LoadRange(s, first, step, lo, mid)} })
           : mid \in {(lo + hi) \div 2} })

RECURSIVE Load(_, _, _)
Load(s, workload, i) ==
    IF i > Len(workload) THEN s
    ELSE Only({ Only({
             IF s1.ub \in BOOLEAN THEN Load(s1, workload, i + 1) ELSE s1
           : s1 \in {LoadRange(s, b[1], b[3], 0, (b[2] - b[1]) \div b[3])} })
           : b \in {workload[i]} })

WorkloadKeys(workload) ==
    UNION {{b[1] + j * b[3] : j \in 0..((b[2] - b[1]) \div b[3])} :
           b \in {workload[i] : i \in DOMAIN workload}}

\* Small trees: empty; a full root leaf (35 records); two leaves of 18 and
\* 19 records; two leaves of 19 and 18 records.
SmallWorkloads ==
    { << >>,
      << <<2, 70, 2>> >>,
      << <<2, 74, 2>> >>,
      << <<2, 72, 2>>, <<3, 3, 2>> >> }

\* Large trees: a root with 100 keys over a full last leaf (the next
\* ascending insert splits the root); a root over two internal nodes of 50
\* and 51 keys; a root over two internal nodes of 51 and 50 keys.
RootFull == << <<2, 3670, 2>> >>
RightLends == << <<2, 3708, 2>> >>
LeftLends == << <<2, 3672, 2>>, <<1, 35, 2>> >>

\* The trees and pool sizes a run starts from.
Setups ==
    {<<w, n>> : w \in SmallWorkloads, n \in PoolSizes}
        \cup {<<RootFull, 4>>, <<RightLends, 2>>, <<LeftLends, 3>>}

InitWith(workload, pool_size, enable_wal) ==
    \E s \in {Load(CreateTree(pool_size, enable_wal), workload, 1)} :
    /\ disk = s.d /\ pool = s.p /\ wal = s.w /\ tree = s.t
    /\ run = "open"
    /\ fault = FaultOf(s)
    /\ out = NoOut
    /\ io = << >>
    /\ kv = [k \in WorkloadKeys(workload) |-> PayloadOf(k)]
    /\ acked = {}
    /\ redo = << >>
    /\ tail = << >>
    /\ nops = 0

Init == \E setup \in Setups : InitWith(setup[1], setup[2], TRUE)

\* ---- The calls of a client ----
Ready == run = "open" /\ fault = "none" /\ nops < MaxOps

DoInsert(key, data) ==
    /\ Ready
    /\ \E s \in {Insert(M, key, data)} :
       /\ Commit(s)
       /\ out' = [NoOut EXCEPT !.op = "Insert", !.key = key, !.status = s.ret]
    /\ kv' = MapPut(kv, key, data)
    /\ nops' = nops + 1
    /\ UNCHANGED <<run, acked, redo, tail>>

DoDelete(key) ==
    /\ Ready
    /\ \E s \in {Delete(M, key)} :
       /\ Commit(s)
       /\ out' = [NoOut EXCEPT !.op = "Delete", !.key = key, !.status = s.ret]
    /\ kv' = MapErase(kv, key)
    /\ acked' = acked \ {key}
    /\ nops' = nops + 1
    /\ UNCHANGED <<run, redo, tail>>

DoSearch(key) ==
    /\ Ready
    /\ \E s \in {Search(M, key)} :
       /\ Commit(s)
       /\ out' = [NoOut EXCEPT !.op = "Search", !.key = key, !.status = s.ret,
                               !.value = IF s.ret = "OK" THEN s.ret2 ELSE << >>]
    /\ nops' = nops + 1
    /\ UNCHANGED <<run, kv, acked, redo, tail>>

DoRangeQuery(lower, upper) ==
    /\ Ready
    /\ \E s \in {RangeQuery(M, lower, upper)} :
       /\ Commit(s)
       /\ out' = [NoOut EXCEPT !.op = "RangeQuery", !.key = lower, !.upper = upper,
                               !.status = s.ret,
                               !.value = IF s.ret = "OK" THEN s.ret2 ELSE << >>]
    /\ nops' = nops + 1
    /\ UNCHANGED <<run, kv, acked, redo, tail>>

DoSync ==
    /\ Ready
    /\ \E s \in {Sync(M)} :
       /\ Commit(s)
       /\ out' = [NoOut EXCEPT !.op = "Sync", !.status = "OK"]
    /\ acked' = DOMAIN kv
    /\ nops' = nops + 1
    /\ UNCHANGED <<run, kv, redo, tail>>

Next ==
    \/ \E key \in Keys, data \in Payloads : DoInsert(key, data)
    \/ \E key \in Keys : DoDelete(key)
    \/ \E key \in Keys : DoSearch(key)
    \/ \E r \in Ranges : DoRangeQuery(r[1], r[2])
    \/ DoSync

Spec == Init /\ [][Next]_vars

\* ------------------------------------------------------------------------
\* Crashes.  The process is killed: the frames of the pool and the members
\* of the objects are gone.  The data file keeps every byte written through
\* the mapping (metadata and flushed pages).  The WAL file keeps what was
\* fsynced and any prefix of what was written after, whose last record may
\* be torn.
\* ------------------------------------------------------------------------
PoolSize == Cardinality(DOMAIN pool.frames)

CrashedWal(w, n, torn) ==
    Only({
        [file |-> IF torn /\ n > w.synced
                  THEN [kept EXCEPT ![n].crc_ok = FALSE] ELSE kept,
         hdr |-> w.hdr, synced |-> n, next_lsn |-> 0, checkpoint_lsn |-> 0]
      : kept \in {SubSeq(w.file, 1, n)} })

DoCheckpoint ==
    /\ Ready
    /\ \E s \in {Checkpoint(M)} :
       /\ Commit(s)
       /\ out' = [NoOut EXCEPT !.op = "Checkpoint", !.status = "OK"]
    /\ acked' = DOMAIN kv
    /\ nops' = nops + 1
    /\ UNCHANGED <<run, kv, redo, tail>>

DoCrash ==
    /\ run = "open"
    /\ run' = "down"
    /\ \E n \in wal.synced..Len(wal.file), torn \in BOOLEAN :
          wal' = CrashedWal(wal, n, torn)
    /\ pool' = NewPool(PoolSize)
    /\ tree' = [tree EXCEPT !.root_offset = INVALID_PAGE_ID,
                            !.next_page_offset = PAGE_SIZE]
    /\ fault' = "none"
    /\ out' = [NoOut EXCEPT !.op = "Crash"]
    /\ io' = << >>
    /\ kv' = [k \in acked \cap DOMAIN kv |-> kv[k]]
    /\ tail' = << >>
    /\ UNCHANGED <<disk, acked, redo, nops>>

DoReopen ==
    /\ run = "down"
    /\ run' = "open"
    /\ \E s \in {OpenTree(disk, wal, PoolSize, tree.wal_enabled)} :
       /\ Commit(s)
       /\ out' = [NoOut EXCEPT !.op = "Open", !.status = "OK"]
    /\ UNCHANGED <<kv, acked, redo, tail, nops>>

CrashInit == \E w \in SmallWorkloads, n \in PoolSizes : InitWith(w, n, TRUE)

CrashNext ==
    \/ \E key \in Keys, data \in Payloads : DoInsert(key, data)
    \/ \E key \in Keys : DoDelete(key)
    \/ \E key \in Keys : DoSearch(key)
    \/ \E r \in Ranges : DoRangeQuery(r[1], r[2])
    \/ DoSync
    \/ DoCheckpoint
    \/ DoCrash
    \/ DoReopen

CrashSpec == CrashInit /\ [][CrashNext]_vars

\* ---- Clean close and re-open, with and without a WAL ----
DoClose ==
    /\ run = "open" /\ fault = "none"
    /\ run' = "down"
    /\ \E s \in {Close(M)} :
       /\ disk' = s.d
       /\ wal' = IF tree.wal_enabled THEN CrashedWal(s.w, Len(s.w.file), FALSE) ELSE s.w
       /\ io' = s.io
       /\ fault' = FaultOf(s)
    /\ pool' = NewPool(PoolSize)
    /\ tree' = [tree EXCEPT !.root_offset = INVALID_PAGE_ID,
                            !.next_page_offset = PAGE_SIZE]
    /\ out' = [NoOut EXCEPT !.op = "Close"]
    /\ UNCHANGED <<kv, acked, redo, tail, nops>>

CloseInit ==
    \E w \in SmallWorkloads, n \in PoolSizes, enable_wal \in BOOLEAN :
        InitWith(w, n, enable_wal)

CloseNext ==
    \/ \E key \in Keys, data \in Payloads : DoInsert(key, data)
    \/ \E key \in Keys : DoDelete(key)
    \/ DoCheckpoint
    \/ DoClose
    \/ DoReopen

CloseSpec == CloseInit /\ [][CloseNext]_vars

\* ---- The WAL used on its own: a WriteAheadLog and a DiskManager ----
\* redo : the PAGE_WRITE records that have been appended and have reached
\*        the log file since the most recent completed checkpoint, as
\*        <<page_id, page_data>>, in log order.
\* tail : the PAGE_WRITE records appended since the last fsync of the log.
WalPages == {PAGE_SIZE, 2 * PAGE_SIZE}
WalImages == {MkLeaf(<< <<2, Pad(<<7>>)>> >>, INVALID_PAGE_ID),
              MkLeaf(<< <<3, Pad(<<8, 9>>)>> >>, INVALID_PAGE_ID)}

WalInit ==
    /\ disk = NewDisk
    /\ pool = NewPool(2)
    /\ wal = NewWal
    /\ tree = [root_offset |-> INVALID_PAGE_ID, next_page_offset |-> PAGE_SIZE,
               wal_enabled |-> TRUE]
    /\ run = "open"
    /\ fault = "none"
    /\ out = NoOut
    /\ io = << >>
    /\ kv = [k \in {} |-> << >>]
    /\ acked = {}
    /\ redo = << >>
    /\ tail = << >>
    /\ nops = 0

WalReady == run = "open" /\ fault = "none" /\ nops < MaxWalOps

WalLogPageWrite(page_id, page_data) ==
    /\ WalReady
    /\ \E r \in {LogPageWrite(wal, page_id, page_data)} :
       /\ wal' = r[1]
       /\ out' = [NoOut EXCEPT !.op = "LogPageWrite", !.key = page_id, !.upper = r[2]]
    /\ tail' = Append(tail, <<page_id, page_data>>)
    /\ nops' = nops + 1
    /\ UNCHANGED <<disk, pool, tree, run, fault, io, kv, acked, redo>>

WalDoFlush ==
    /\ WalReady
    /\ wal' = WalFlush(wal)
    /\ redo' = redo \o tail
    /\ tail' = << >>
    /\ out' = [NoOut EXCEPT !.op = "Flush"]
    /\ nops' = nops + 1
    /\ UNCHANGED <<disk, pool, tree, run, fault, io, kv, acked>>

WalBeginCheckpoint ==
    /\ WalReady
    /\ wal' = BeginCheckpoint(wal)[1]
    /\ redo' = redo \o tail
    /\ tail' = << >>
    /\ out' = [NoOut EXCEPT !.op = "BeginCheckpoint"]
    /\ nops' = nops + 1
    /\ UNCHANGED <<disk, pool, tree, run, fault, io, kv, acked>>

\* A completed checkpoint: nothing logged before it has to be redone.
WalEndCheckpoint ==
    /\ WalReady
    /\ \E r \in {EndCheckpoint(wal)} :
       /\ wal' = r[1]
       /\ out' = [NoOut EXCEPT !.op = "EndCheckpoint", !.upper = r[2]]
    /\ redo' = << >>
    /\ tail' = << >>
    /\ nops' = nops + 1
    /\ UNCHANGED <<disk, pool, tree, run, fault, io, kv, acked>>

\* ~WriteAheadLog: fsync and close; the members are gone.
WalClose ==
    /\ run = "open"
    /\ run' = "down"
    /\ wal' = CrashedWal(wal, Len(wal.file), FALSE)
    /\ redo' = redo \o tail
    /\ tail' = << >>
    /\ fault' = "none"
    /\ out' = [NoOut EXCEPT !.op = "Close"]
    /\ UNCHANGED <<disk, pool, tree, io, kv, acked, nops>>

\* The process is killed: the log keeps what was fsynced and any prefix of
\* what was written after, the last record of it possibly torn.
WalCrash ==
    /\ run = "open"
    /\ run' = "down"
    /\ \E n \in wal.synced..Len(wal.file), torn \in BOOLEAN :
          /\ wal' = CrashedWal(wal, n, torn)
          /\ redo' = redo \o SubSeq(tail, 1, IF torn /\ n > wal.synced
                                             THEN n - wal.synced - 1
                                             ELSE n - wal.synced)
    /\ tail' = << >>
    /\ fault' = "none"
    /\ out' = [NoOut EXCEPT !.op = "Crash"]
    /\ UNCHANGED <<disk, pool, tree, io, kv, acked, nops>>

\* WriteAheadLog::WriteAheadLog on the existing file, then Recover(disk).
WalRecover ==
    /\ run = "down"
    /\ run' = "open"
    /\ \E s \in {Recover(MachineOf(disk, pool, OpenWal(wal), tree))} :
       /\ Commit(s)
       /\ out' = [NoOut EXCEPT !.op = "Recover", !.key = s.ret, !.status = "OK"]
    /\ UNCHANGED <<kv, acked, redo, tail, nops>>

\* Recover once more right after a Recover, nothing appended in between:
\* on the same WriteAheadLog object, or on one opened anew after the first
\* was destroyed.  out.upper keeps what the first Recover returned.
WalRecoverAgain(reopen) ==
    /\ run = "open" /\ fault = "none" /\ out.op = "Recover"
    /\ \E s \in {Recover(MachineOf(disk, pool,
                                     IF reopen
                                     THEN OpenWal(CrashedWal(wal, Len(wal.file), FALSE))
                                     ELSE wal,
                                     tree))} :
       /\ Commit(s)
       /\ out' = [NoOut EXCEPT !.op = "RecoverAgain", !.key = s.ret,
                               !.upper = out.key, !.status = "OK"]
    /\ UNCHANGED <<run, kv, acked, redo, tail, nops>>

WalNext ==
    \/ \E page_id \in WalPages, page_data \in WalImages :
          WalLogPageWrite(page_id, page_data)
    \/ WalDoFlush
    \/ WalBeginCheckpoint
    \/ WalEndCheckpoint
    \/ WalClose
    \/ WalCrash
    \/ WalRecover
    \/ \E reopen \in BOOLEAN : WalRecoverAgain(reopen)

WalSpec == WalInit /\ [][WalNext]_vars

\* ---- Emptying a tree ----
\* A client that deletes the keys of a tree of several leaves one by one, in
\* orders that take the lowest or the highest key left, with at most
\* MaxDrainExtras Insert or Delete calls of other keys in between.
MaxDrainExtras == 1

DrainWorkloads == { << <<2, 74, 2>> >> }

DrainKey(which) ==
    CHOOSE k \in DOMAIN kv :
        Cardinality({j \in DOMAIN kv : j < k}) =
            CASE which = "lowest" -> 0
              [] which = "highest" -> Cardinality(DOMAIN kv) - 1
              [] OTHER -> Cardinality(DOMAIN kv) \div 2

DoDrain(which) ==
    /\ run = "open" /\ fault = "none" /\ DOMAIN kv # {}
    /\ \E key \in {DrainKey(which)} :
       /\ \E s \in {Delete(M, key)} :
          /\ Commit(s)
          /\ out' = [NoOut EXCEPT !.op = "Delete", !.key = key, !.status = s.ret]
       /\ kv' = MapErase(kv, key)
       /\ acked' = acked \ {key}
    /\ UNCHANGED <<run, redo, tail, nops>>

DrainInit == \E w \in DrainWorkloads, n \in PoolSizes : InitWith(w, n, TRUE)

DrainNext ==
    \/ \E which \in {"lowest", "highest"} : DoDrain(which)
    \/ \E key \in Keys, data \in Payloads : nops < MaxDrainExtras /\ DoInsert(key, data)
    \/ \E key \in Keys : nops < MaxDrainExtras /\ DoDelete(key)

DrainSpec == DrainInit /\ [][DrainNext]_vars

\* ---- Trees over a pool of one frame or none ----
\* BPlusTree(index_file, pool_size, enable_wal) takes any pool_size.  The
\* trees are the empty tree over no frame and over one frame, and a full
\* root leaf (35 records, built by Insert calls that pin one page at a
\* time) over one frame.
TinySetups == { << << >>, 0 >>, << << >>, 1 >>, << << <<2, 70, 2>> >>, 1 >> }

TinyInit == \E setup \in TinySetups : InitWith(setup[1], setup[2], TRUE)

TinyNext ==
    \/ \E key \in Keys, data \in Payloads : DoInsert(key, data)
    \/ \E key \in Keys : DoDelete(key)
    \/ \E key \in Keys : DoSearch(key)
    \/ DoSync

TinySpec == TinyInit /\ [][TinyNext]_vars

\* ---- The buffer pool on its own ----
\* A client of BufferPool that holds pins across calls: it creates pages,
\* fetches, writes, unpins, flushes and drops them, at most MaxPoolOps calls,
\* on pools of one and of two frames over a new data file.  The pages it
\* fetches are pages AllocatePage has handed out.  A write goes through the
\* pointer of a page the client has pinned and is followed by
\* UnpinPage(page_id, true).
\* Beside the program's state the client keeps two records of its own:
\*   kv    the bytes it last wrote to each page it created (a plain page
\*         store: zeros at NewPage, the image at a write, forgotten at
\*         DeletePage);
\*   redo  the resident pages whose pin count is 0, in the order in which
\*         their pin count dropped to 0.
MaxPoolOps == 7

PoolFrames == {1, 2}
PoolPages == {PAGE_SIZE, 2 * PAGE_SIZE, 3 * PAGE_SIZE}
PoolImages == WalImages

PoolInit ==
    /\ disk = NewDisk
    /\ pool \in {NewPool(n) : n \in PoolFrames}
    /\ wal = NewWal
    /\ tree = [root_offset |-> INVALID_PAGE_ID, next_page_offset |-> PAGE_SIZE,
               wal_enabled |-> FALSE]
    /\ run = "open"
    /\ fault = "none"
    /\ out = NoOut
    /\ io = << >>
    /\ kv = [k \in {} |-> << >>]
    /\ acked = {}
    /\ redo = << >>
    /\ tail = << >>
    /\ nops = 0

PoolReady == run = "open" /\ fault = "none" /\ nops < MaxPoolOps

\* The resident pages nobody has pinned.
IdlePages(p) ==
    {pid \in DOMAIN p.page_table : p.frames[p.page_table[pid]].pin_count = 0}

\* The order of the idle pages after a call: those that stayed idle keep
\* their order, a page that became idle comes last.
IdleOrder(order, before, after) ==
    SelectSeq(order, LAMBDA pid : pid \in IdlePages(before) \cap IdlePages(after))
      \o (IF IdlePages(after) \subseteq IdlePages(before) THEN << >>
          ELSE << CHOOSE pid \in IdlePages(after) \ IdlePages(before) : TRUE >>)

\* What every call of the client leaves behind: machine s, the result and
\* the client's page store.
PoolCall(s, op, page_id, status, store) ==
    /\ Commit(s)
    /\ out' = [NoOut EXCEPT !.op = op, !.key = page_id, !.status = status]
    /\ kv' = store
    /\ redo' = IdleOrder(redo, pool, s.p)
    /\ nops' = nops + 1
    /\ UNCHANGED <<run, acked, tail>>

PoolFetchPage(page_id) ==
    /\ PoolReady
    /\ page_id < disk.next
    /\ \E s \in {FetchPage(M, page_id)} :
          PoolCall(s, "FetchPage", page_id,
                   IF s.ret = NullPtr THEN "null" ELSE "frame", kv)

PoolUnpinPage(page_id, dirty) ==
    /\ PoolReady
    /\ \E s \in {UnpinPagePool(M, page_id, dirty)} :
          PoolCall(s, "UnpinPage", page_id, IF s.ret THEN "true" ELSE "false", kv)

\* memcpy(data, image, ...) into a pinned page, then UnpinPage(page_id, true).
PoolWritePage(page_id, image) ==
    /\ PoolReady
    /\ page_id \in DOMAIN pool.page_table
    /\ pool.frames[pool.page_table[page_id]].pin_count > 0
    /\ \E s \in {UnpinPagePool(
                   [M EXCEPT !.p.frames[pool.page_table[page_id]].data = image],
                   page_id, TRUE)} :
          PoolCall(s, "WritePage", page_id, IF s.ret THEN "true" ELSE "false",
                   MapPut(kv, page_id, image))

PoolNewPage ==
    /\ PoolReady
    /\ \E s \in {NewPage(M)} :
          PoolCall(s, "NewPage", s.ret2,
                   IF s.ret = NullPtr THEN "null" ELSE "frame",
                   IF s.ret = NullPtr THEN kv ELSE MapPut(kv, s.ret2, ZeroPage))

PoolDeletePage(page_id) ==
    /\ PoolReady
    /\ \E s \in {DeletePage(M, page_id)} :
          PoolCall(s, "DeletePage", page_id, IF s.ret THEN "true" ELSE "false",
                   IF s.ret /\ page_id \in DOMAIN kv THEN MapErase(kv, page_id) ELSE kv)

PoolFlushAllPages ==
    /\ PoolReady
    /\ \E s \in {FlushAllPages(M)} :
          PoolCall(s, "FlushAllPages", 0, "done", kv)

PoolNext ==
    \/ \E page_id \in PoolPages : PoolFetchPage(page_id)
    \/ \E page_id \in PoolPages, dirty \in BOOLEAN : PoolUnpinPage(page_id, dirty)
    \/ \E page_id \in PoolPages, image \in PoolImages : PoolWritePage(page_id, image)
    \/ PoolNewPage
    \/ \E page_id \in PoolPages : PoolDeletePage(page_id)
    \/ PoolFlushAllPages

PoolSpec == PoolInit /\ [][PoolNext]_vars

\* ------------------------------------------------------------------------
\* The tree the variables hold, read the way the code reads it: a page is
\* what FetchPage would hand out (the frame if resident, the file if not).
\* ------------------------------------------------------------------------
Node(off) ==
    IF off \in DOMAIN pool.page_table
    THEN pool.frames[pool.page_table[off]].data
    ELSE PageData(disk, off)

\* The depths at which the leaves below off sit (-1 for a path that does
\* not end within MaxDepth levels).
RECURSIVE LeafDepths(_, _)
LeafDepths(off, depth) ==
    IF depth > MaxDepth THEN {-1}
    ELSE Only({
             IF PageIsLeaf(n) THEN {depth}
             ELSE UNION {LeafDepths(ChildAt(n, i), depth + 1) : i \in 0..NumKeys(n)}
           : n \in {Node(off)} })

\* The leaves below off, left to right.
RECURSIVE TreeLeaves(_, _)
RECURSIVE LeavesOfChildren(_, _, _, _)
TreeLeaves(off, depth) ==
    IF depth > MaxDepth THEN << >>
    ELSE Only({
             IF PageIsLeaf(n) THEN <<off>> ELSE LeavesOfChildren(n, 0, NumKeys(n), depth)
           : n \in {Node(off)} })
\* The leaves below children lo..hi of node n.
LeavesOfChildren(n, lo, hi, depth) ==
    IF lo > hi THEN << >>
    ELSE IF lo = hi THEN TreeLeaves(ChildAt(n, lo), depth + 1)
    ELSE Only({
             LeavesOfChildren(n, lo, mid, depth) \o LeavesOfChildren(n, mid + 1, hi, depth)
           : mid \in {(lo + hi) \div 2} })

\* The internal nodes below (and including) off.
RECURSIVE InternalNodes(_, _)
InternalNodes(off, depth) ==
    IF depth > MaxDepth THEN {}
    ELSE Only({
             IF PageIsLeaf(n) THEN {}
             ELSE {off} \cup UNION {InternalNodes(ChildAt(n, i), depth + 1) :
                                    i \in 0..NumKeys(n)}
           : n \in {Node(off)} })

\* The leftmost leaf below off.
RECURSIVE LeftmostLeaf(_, _)
LeftmostLeaf(off, depth) ==
    IF depth > MaxDepth \/ PageIsLeaf(Node(off)) THEN off
    ELSE LeftmostLeaf(ChildAt(Node(off), 0), depth + 1)

\* The pages met by following next_leaf from off, at most fuel of them.
RECURSIVE ChainFrom(_, _)
ChainFrom(off, fuel) ==
    IF off = INVALID_PAGE_ID \/ fuel = 0 THEN << >>
    ELSE <<off>> \o ChainFrom(NextLeaf(Node(off)), fuel - 1)

RECURSIVE KeysAlong(_, _)
KeysAlong(offs, i) ==
    IF i > Len(offs) THEN << >>
    ELSE Node(offs[i]).keys \o KeysAlong(offs, i + 1)

Root == tree.root_offset
AllLeaves == IF Root = INVALID_PAGE_ID THEN << >> ELSE TreeLeaves(Root, 0)
AllInternal == IF Root = INVALID_PAGE_ID THEN {} ELSE InternalNodes(Root, 0)
LeafChain == IF Root = INVALID_PAGE_ID THEN << >>
             ELSE ChainFrom(LeftmostLeaf(Root, 0), Len(disk.pages) + 1)
Range(seq) == {seq[i] : i \in DOMAIN seq}
StrictlyAscending(seq) == \A i \in 1..(Len(seq) - 1) : seq[i] < seq[i + 1]
Healthy == run = "open" /\ fault = "none"

\* ------------------------------------------------------------------------
\* Properties of the tree (specification Spec)
\* ------------------------------------------------------------------------
Probes == Keys \cup {1, 36, 38, 3670, 3674}

SearchAgrees(k) ==
    Only({
        /\ ~Dead(s)
        /\ IF k \in DOMAIN kv THEN s.ret = "OK" /\ s.ret2 = kv[k]
           ELSE s.ret = "NotFound"
      : s \in {Search(M, k)} })

\* C1: after any sequence of Insert and Delete calls, Search(k) returns OK
\* with the payload of the latest Insert(k) when k was inserted and not
\* deleted since, and NotFound otherwise: the tree is the finite map kv.
C1_FiniteMap ==
    /\ Healthy
    /\ \A k \in Probes : SearchAgrees(k)
    /\ out.op = "Search" =>
          IF out.key \in DOMAIN kv
          THEN out.status = "OK" /\ out.value = kv[out.key]
          ELSE out.status = "NotFound"
    /\ out.op = "Insert" => out.status = "OK"

\* A Search that returns a payload written by an Insert call of the run.
C1_Witness ==
    /\ out.op = "Search" /\ out.status = "OK" /\ out.value \in Payloads
    /\ nops = 2

\* C5: RangeQuery(lower, upper) with lower <= upper returns OK with exactly
\* the keys of the tree in [lower, upper], each once, strictly ascending,
\* each with its current payload.
C5_RangeExact ==
    (out.op = "RangeQuery" /\ out.key <= out.upper) =>
        Only({
            /\ out.status = "OK"
            /\ \A i \in DOMAIN r :
                  /\ r[i][1] \in DOMAIN kv
                  /\ r[i][1] >= out.key /\ r[i][1] <= out.upper
                  /\ r[i][2] = kv[r[i][1]]
            /\ \A i \in 1..(Len(r) - 1) : r[i][1] < r[i + 1][1]
            /\ {r[i][1] : i \in DOMAIN r} =
                  {k \in DOMAIN kv : k >= out.key /\ k <= out.upper}
          : r \in {out.value} })

\* A range query that ran over several leaves after an insert or delete.
C5_Witness ==
    /\ out.op = "RangeQuery" /\ out.status = "OK" /\ Len(out.value) > 35
    /\ nops = 2

\* C6: every leaf other than the root holds at least 18 and at most 35
\* records, and a root leaf holds at most 35.
C6_LeafFill ==
    \A l \in Range(AllLeaves) :
        /\ NumKeys(Node(l)) <= 35
        /\ l # Root => NumKeys(Node(l)) >= 18

\* After a delete that merged two leaves: a leaf of 35 next to leaves of 18.
C6_Witness ==
    /\ out.op = "Delete" /\ out.status = "OK"
    /\ disk.free_head # INVALID_PAGE_ID
    /\ \E l \in Range(AllLeaves) : l # Root /\ NumKeys(Node(l)) = 35
    /\ \E l \in Range(AllLeaves) : l # Root /\ NumKeys(Node(l)) = 18

\* C7 as the specification states it: every internal node other than the
\* root holds at least 51 and at most 100 keys.
C7_InternalFill51 ==
    \A n \in AllInternal : n # Root => NumKeys(Node(n)) \in 51..100

\* C7 as the code has it: every internal node other than the root holds at
\* least 50 and at most 100 keys.
C7_InternalFill ==
    \A n \in AllInternal : n # Root => NumKeys(Node(n)) \in 50..100

\* After the insert that split a full root: an internal node of 50 keys.
C7_Witness ==
    /\ out.op = "Insert" /\ out.status = "OK"
    /\ \E n \in AllInternal : n # Root /\ NumKeys(Node(n)) = 50

\* C8: all leaves are at the same depth from the root.
C8_SameDepth ==
    Root # INVALID_PAGE_ID =>
        Only({
            Cardinality(depths) = 1 /\ -1 \notin depths
          : depths \in {LeafDepths(Root, 0)} })

\* After a root split followed by a root shrink: one internal level again,
\* its root holding the 100 keys of the two merged internal nodes.
C8_Witness ==
    /\ out.op = "Delete" /\ out.status = "OK" /\ nops = 2
    /\ Root # INVALID_PAGE_ID
    /\ LeafDepths(Root, 0) = {1}
    /\ NumKeys(Node(Root)) = 100

\* C9: on a non-empty tree, following next_leaf from the leftmost leaf
\* visits every leaf exactly once and ends at -1, and the keys read on the
\* way are strictly ascending and are exactly the keys stored in the tree.
C9_LeafChain ==
    Root # INVALID_PAGE_ID =>
        Only({ Only({ Only({
            /\ chain = leaves
            /\ Cardinality(Range(leaves)) = Len(leaves)
            /\ NextLeaf(Node(chain[Len(chain)])) = INVALID_PAGE_ID
            /\ StrictlyAscending(keys)
            /\ Range(keys) = DOMAIN kv
          : keys \in {KeysAlong(chain, 1)} })
          : leaves \in {AllLeaves} })
          : chain \in {LeafChain} })

\* After a delete that merged two leaves of a chain of several.
C9_Witness ==
    /\ out.op = "Delete" /\ out.status = "OK"
    /\ disk.free_head # INVALID_PAGE_ID
    /\ Len(LeafChain) > 2

PageOffsets == {n * PAGE_SIZE : n \in 1..Len(disk.pages)}

\* C10: Delete of a key that is present returns OK and a Delete of the same
\* key right after it returns NotFound; a Delete that returns NotFound
\* changes no node, nor root_offset, next_page_offset or the free list.
C10_Delete ==
    [][(out'.op = "Delete" /\ nops' = nops + 1) =>
          /\ out'.key \in DOMAIN kv =>
                /\ out'.status = "OK"
                /\ Delete(MachineOf(disk', pool', wal', tree'), out'.key).ret
                      = "NotFound"
          /\ out'.status = "NotFound" =>
                /\ tree' = tree
                /\ disk'.free_head = disk.free_head
                /\ disk'.next = disk.next /\ disk'.root = disk.root
                /\ \A off \in PageOffsets : Node(off)' = Node(off)]_vars

\* A Delete that returned NotFound for key 2 on a tree that held key 2 at
\* the start: the second of two Delete(2) calls.
C10_Witness ==
    /\ out.op = "Delete" /\ out.status = "NotFound" /\ out.key = 2
    /\ nops = 2
    /\ Cardinality(DOMAIN kv) > 30

\* The keys the leaves of the tree hold.
TreeKeys == UNION {Range(Node(l).keys) : l \in Range(AllLeaves)}

\* Page off is the same but for the payload stored with key.
SameButPayload(before, after, key) ==
    /\ after.num_keys = before.num_keys /\ after.is_leaf = before.is_leaf
    /\ after.w8 = before.w8 /\ after.keys = before.keys /\ after.kids = before.kids
    /\ DOMAIN after.vals = DOMAIN before.vals
    /\ \A i \in DOMAIN before.vals :
          (PageIsLeaf(before) /\ before.keys[i] = key) \/ after.vals[i] = before.vals[i]

\* C11: Insert of a key that is already present returns OK and overwrites
\* only that key's payload: the keys of the tree, every other payload, every
\* node, root_offset, next_page_offset, the free list and the file length
\* are unchanged (no split, no page allocated), and Search of the key then
\* returns the new payload.
C11_Upsert ==
    [][(out'.op = "Insert" /\ nops' = nops + 1 /\ out'.key \in DOMAIN kv) =>
          /\ out'.status = "OK"
          /\ TreeKeys' = TreeKeys
          /\ tree' = tree
          /\ disk'.root = disk.root /\ disk'.next = disk.next
          /\ disk'.free_head = disk.free_head /\ disk'.file_size = disk.file_size
          /\ \A off \in PageOffsets' : SameButPayload(Node(off), Node(off)', out'.key)
          /\ \A k \in (Probes \cap DOMAIN kv) \ {out'.key} :
                \E s \in {Search(MachineOf(disk', pool', wal', tree'), k)} :
                    s.ret = "OK" /\ s.ret2 = kv[k]
          /\ \E s \in {Search(MachineOf(disk', pool', wal', tree'), out'.key)} :
                s.ret = "OK" /\ s.ret2 = kv'[out'.key]]_vars

\* An Insert of key 40 into a full root leaf of 35 records that held key 40
\* already: the leaf still holds 35 records, key 40 with the new payload.
C11_Witness ==
    /\ out.op = "Insert" /\ out.key = 40 /\ out.status = "OK" /\ nops = 1
    /\ Cardinality(DOMAIN kv) = 35 /\ kv[40] = <<8, 9>>
    /\ Root # INVALID_PAGE_ID /\ PageIsLeaf(Node(Root)) /\ NumKeys(Node(Root)) = 35

\* ------------------------------------------------------------------------
\* Properties of a tree that is emptied (specification DrainSpec)
\* ------------------------------------------------------------------------
\* C12: between operations root_offset is -1 (in the tree object and in the
\* metadata page) if and only if the tree holds no records; a tree whose
\* keys have all been deleted, in whatever order, has root_offset -1.
C12_EmptyIffNoRoot ==
    /\ Healthy
    /\ disk.root = Root
    /\ (Root = INVALID_PAGE_ID) <=> (DOMAIN kv = {})
    /\ Root # INVALID_PAGE_ID => (TreeKeys # {} /\ TreeKeys = DOMAIN kv)

\* The Delete of the last key of a tree that had grown to several leaves
\* under a root: the four pages are allocated and the tree is empty.
C12_Witness ==
    /\ out.op = "Delete" /\ out.status = "OK"
    /\ Root = INVALID_PAGE_ID /\ DOMAIN kv = {}
    /\ disk.next >= 4 * PAGE_SIZE

\* The free list of data file d from page off on: the pages met by
\* following the link each free page stores, at most fuel of them.
RECURSIVE FreeChainFrom(_, _, _)
FreeChainFrom(d, off, fuel) ==
    IF off = INVALID_PAGE_ID \/ fuel = 0 THEN << >>
    ELSE IF ~InFile(d, off) \/ off < PAGE_SIZE THEN <<off>>
    ELSE <<off>> \o FreeChainFrom(d, ReadLink(PageData(d, off)), fuel - 1)

FreeChain == FreeChainFrom(disk, disk.free_head, Len(disk.pages) + 1)

\* The pages of the tree.
TreePages == AllInternal \cup Range(AllLeaves)

\* What AllocatePage does on data file d.
AllocatesAsStated(d) ==
    \E r \in {AllocatePage(d)} :
        /\ PageData(r[1], r[2]) = ZeroPage
        /\ IF d.free_head # INVALID_PAGE_ID
           THEN /\ r[2] = d.free_head
                /\ r[1].free_head = ReadLink(PageData(d, d.free_head))
                /\ r[1].next = d.next /\ r[1].file_size = d.file_size
           ELSE /\ r[2] = d.next
                /\ r[1].next = d.next + PAGE_SIZE
                /\ r[1].free_head = INVALID_PAGE_ID

\* C18: allocate_page with a non-empty free list returns the head of the
\* list zeroed, sets free_list_head to the link that page stored and leaves
\* next_page_offset and the file length alone; with an empty free list it
\* returns the old next_page_offset and advances it by PAGE_SIZE.  So the
\* pages an Insert adds to the tree are the first pages of the free list,
\* in list order, and the frontier moves only for those the list cannot
\* supply.
C18_ReuseFreed ==
    [][/\ AllocatesAsStated(disk)
       /\ out'.op = "Insert" =>
             \E chain \in {FreeChain}, added \in {TreePages' \ TreePages} :
             \E k \in {Min(Cardinality(added), Len(chain))} :
                 /\ added = {chain[i] : i \in 1..k}
                             \cup {disk.next + i * PAGE_SIZE :
                                       i \in 0..(Cardinality(added) - k - 1)}
                 /\ FreeChain' = SubSeq(chain, k + 1, Len(chain))
                 /\ disk'.next = disk.next + (Cardinality(added) - k) * PAGE_SIZE
                 /\ k = Cardinality(added) => disk'.file_size = disk.file_size]_vars

\* An Insert that split the one leaf left after a merge and a root shrink:
\* the new leaf and the new root took the two freed pages (the root is the
\* page that was the right leaf), and the frontier did not move.
C18_Witness ==
    /\ out.op = "Insert" /\ out.status = "OK"
    /\ Root = 2 * PAGE_SIZE /\ ~PageIsLeaf(Node(Root))
    /\ disk.next = 4 * PAGE_SIZE /\ disk.free_head = INVALID_PAGE_ID

\* C19: after any sequence of tree operations the free list of the data
\* file, followed from free_list_head, is a finite chain that ends in -1,
\* holds no page twice, holds no page below PAGE_SIZE (the metadata page is
\* never freed) and holds no page reachable from root_offset.
C19_FreeList ==
    \E chain \in {FreeChain} :
        /\ Healthy
        /\ \A i \in DOMAIN chain :
              /\ chain[i] >= PAGE_SIZE /\ chain[i] % PAGE_SIZE = 0
              /\ InFile(disk, chain[i]) /\ chain[i] < disk.next
        /\ chain # << >> => ReadLink(PageData(disk, chain[Len(chain)])) = INVALID_PAGE_ID
        /\ Cardinality(Range(chain)) = Len(chain)
        /\ Range(chain) \cap TreePages = {}
        /\ Range(chain) \cap DOMAIN pool.page_table = {}

\* After a Delete that merged the two leaves and shrank the root: two pages
\* on the free list, next to a tree that still holds records.
C19_Witness ==
    /\ out.op = "Delete" /\ out.status = "OK"
    /\ Len(FreeChain) = 2 /\ Root # INVALID_PAGE_ID /\ NumKeys(Node(Root)) = 35

\* ------------------------------------------------------------------------
\* Properties across a clean close (specification CloseSpec)
\* ------------------------------------------------------------------------
\* The key-to-payload map the leaves of the tree hold.
TreeMap ==
    UNION {{<<r[1], Trim(r[2])>> : r \in Range(Records(Node(l)))} : l \in Range(AllLeaves)}

\* C13: after any sequence of inserts and deletes, a clean close (the tree
\* destructor) and a re-open of the same file, with the WAL enabled or
\* disabled, the re-opened tree holds exactly the key-to-payload map it
\* held before the close.
C13_CloseReopen ==
    out.op = "Open" =>
        /\ fault = "none"
        /\ TreeMap = {<<k, kv[k]>> : k \in DOMAIN kv}
        /\ \A k \in Probes : SearchAgrees(k)

\* A tree without a WAL re-opened after an Insert that split the root leaf,
\* a second call and a clean close.
C13_Witness ==
    /\ out.op = "Open" /\ ~tree.wal_enabled /\ nops = 2
    /\ 3 \in DOMAIN kv /\ kv[3] \in Payloads
    /\ Cardinality(DOMAIN kv) >= 36
    /\ Root # INVALID_PAGE_ID /\ ~PageIsLeaf(Node(Root))

\* The file operations ops have the log truncated once, after a sync of the
\* data file that every copy of a frame precedes.
FlushedBeforeTruncate(ops) ==
    \E t \in DOMAIN ops :
        /\ ops[t] = <<"wal_truncate">>
        /\ \A i \in DOMAIN ops : ops[i] = <<"wal_truncate">> => i = t
        /\ \E j \in 1..(t - 1) :
              /\ ops[j] = <<"sync">>
              /\ \A i \in DOMAIN ops : ops[i][1] = "copy" => i < j

\* No frame of pool p is dirty, every resident page is in the data file d
\* as the frame holds it, and log w is down to its header.
NothingPending(d, p, w) ==
    /\ \A i \in DOMAIN p.frames : ~p.frames[i].dirty
    /\ \A pid \in DOMAIN p.page_table : p.frames[p.page_table[pid]].data = PageData(d, pid)
    /\ w.file = << >>

\* C17: in BPlusTree::Checkpoint and in the clean close of a tree with a
\* WAL, every dirty frame is copied to the data file and the data file is
\* synced before CHECKPOINT_END is appended and the WAL truncated: when the
\* WAL is truncated no update is only in the WAL or only in a dirty frame.
C17_FlushBeforeTruncate ==
    [][(out'.op \in {"Checkpoint", "Close"} /\ tree.wal_enabled) =>
          \E s \in {IF out'.op = "Checkpoint" THEN Checkpoint(M) ELSE Close(M)} :
              /\ ~Dead(s)
              /\ io' = s.io /\ disk' = s.d
              /\ FlushedBeforeTruncate(s.io)
              /\ NothingPending(s.d, s.p, s.w)]_vars

\* A Checkpoint of a tree with a WAL that copied dirty frames and then
\* truncated the log.
C17_Witness ==
    /\ out.op = "Checkpoint" /\ tree.wal_enabled
    /\ \E i, t \in DOMAIN io : i < t /\ io[i][1] = "copy" /\ io[t] = <<"wal_truncate">>

\* ------------------------------------------------------------------------
\* Properties across a crash (specification CrashSpec)
\* ------------------------------------------------------------------------
\* The shape of a B+ tree: leaves at one depth, nodes filled within their
\* limits, the leaf chain running through all leaves with ascending keys.
StructurallyValid ==
    Root # INVALID_PAGE_ID =>
        Only({ Only({ Only({
            /\ Cardinality(depths) = 1 /\ -1 \notin depths
            /\ chain = leaves
            /\ StrictlyAscending(KeysAlong(chain, 1))
            /\ \A l \in Range(leaves) :
                  /\ NumKeys(Node(l)) <= LEAF_MAX_KEYS
                  /\ l # Root => NumKeys(Node(l)) >= LEAF_MIN_KEYS
                  /\ l = Root => NumKeys(Node(l)) >= 1
            /\ \A n \in AllInternal :
                  /\ NumKeys(Node(n)) <= INTERNAL_MAX_KEYS
                  /\ n # Root => NumKeys(Node(n)) >= INTERNAL_MIN_KEYS
                  /\ n = Root => NumKeys(Node(n)) >= 1
          : leaves \in {AllLeaves} })
          : chain \in {LeafChain} })
          : depths \in {LeafDepths(Root, 0)} })

SearchFinds(k) == \E s \in {Search(M, k)} : ~Dead(s) /\ s.ret = "OK"

\* C2: after inserts, a flush_all_pages (Sync), further operations, a crash
\* that discards the frames, and a re-open, every key inserted before the
\* flush (and not deleted since) is returned by Search and the re-opened tree
\* is structurally valid.
C2_CrashSafe ==
    (out.op = "Open" /\ acked # {}) =>
        /\ fault = "none"
        /\ \A k \in acked : SearchFinds(k)
        /\ StructurallyValid

\* A tree re-opened after a crash that followed a flush and one more
\* operation.
C2_Witness == out.op = "Open" /\ acked # {} /\ nops = 2

\* C3: whenever a pool with a WAL attached copies a dirty frame to the data
\* file (FlushPage, FlushAllPages, eviction), a PAGE_WRITE record with the
\* frame's page_id and contents has been appended to the WAL and the WAL
\* fsynced before the copy.
C3_LogBeforeCopy ==
    pool.wal => \A i \in DOMAIN io : io[i][1] = "copy" => io[i][4]

\* A call during which a pool with a WAL attached copied a frame.
C3_Witness == pool.wal /\ \E i \in DOMAIN io : io[i][1] = "copy"

\* The contents the log gives a page: the data of the last record of the
\* page in seq.
LatestImage(seq, page_id) ==
    seq[CHOOSE i \in DOMAIN seq :
            /\ seq[i][1] = page_id
            /\ \A j \in DOMAIN seq : seq[j][1] = page_id => j <= i][2]

\* C4: over any history of WAL sessions (log_page_write, flush, begin and
\* end_checkpoint, clean close or crash, re-open), Recover applies to the
\* data file every PAGE_WRITE record that reached the log after the most
\* recent completed checkpoint, in log order: each such page then holds its
\* latest logged after-image.
C4_RecoverRedoes ==
    out.op = "Recover" =>
        /\ fault = "none"
        /\ \A i \in DOMAIN redo :
              PageData(disk, redo[i][1]) = LatestImage(redo, redo[i][1])

\* A Recover that applied records, two of them for the same page.
C4_Witness ==
    /\ out.op = "Recover" /\ out.key > 0
    /\ \E i, j \in DOMAIN redo : i < j /\ redo[i][1] = redo[j][1] /\ redo[i][2] # redo[j][2]

\* C14: a Recover run right after a Recover on the same WAL and data file,
\* with no append in between, applies zero pages and leaves the data file
\* exactly as the first run left it.
C14_RecoverTwice ==
    [][out'.op = "RecoverAgain" =>
          (fault' = "none" /\ out'.key = 0 /\ disk' = disk)]_vars

\* A second Recover after a first one that applied pages.
C14_Witness == out.op = "RecoverAgain" /\ out.upper > 0 /\ out.key = 0 /\ disk.pages # << >>

\* C15: on a new log the first record gets LSN 1; every append (PAGE_WRITE,
\* CHECKPOINT_BEGIN, CHECKPOINT_END) is assigned the current next_lsn and
\* advances it by exactly 1; log_page_write returns the LSN it assigned; and
\* the LSN a record gets is strictly greater than that of every record
\* appended to the log before it (the intact records in the file and the
\* CHECKPOINT_END whose LSN the header keeps).
C15_LsnIncreasing ==
    [][(out'.op \in {"LogPageWrite", "BeginCheckpoint", "EndCheckpoint"} /\ nops' = nops + 1) =>
          /\ wal'.next_lsn = wal.next_lsn + 1
          /\ IF out'.op = "EndCheckpoint" THEN wal'.hdr = wal.next_lsn
             ELSE Back(wal'.file).lsn = wal.next_lsn
          /\ out'.op = "LogPageWrite" => out'.upper = wal.next_lsn
          /\ nops = 0 => wal.next_lsn = 1
          /\ wal.next_lsn > wal.hdr
          /\ \A i \in DOMAIN wal.file :
                wal.file[i].crc_ok => wal.next_lsn > wal.file[i].lsn]_vars

\* A record appended to a log that went through a checkpoint before.
C15_Witness == out.op = "LogPageWrite" /\ wal.hdr > 0 /\ wal.file # << >>

\* C16: end_checkpoint appends a CHECKPOINT_END record with the next LSN n,
\* sets the header's checkpoint_lsn to n and returns n, and on return the
\* WAL file holds the header only: every earlier record is gone.
C16_EndCheckpoint ==
    [][(out'.op = "EndCheckpoint" /\ nops' = nops + 1) =>
          \E n \in {out'.upper} :
              /\ n = wal.next_lsn
              /\ wal'.next_lsn = n + 1
              /\ wal'.hdr = n /\ wal'.checkpoint_lsn = n
              /\ wal'.file = << >>]_vars

\* An end_checkpoint that returned LSN 3: the third of three appends in a
\* row, on a log that held records when it was called.
C16_Witness ==
    /\ out.op = "EndCheckpoint" /\ out.upper = 3 /\ nops = 3
    /\ wal.file = << >> /\ wal.hdr = 3

\* The pages held by a pinned frame, and a pool with no frame to give.
PinnedPages(p) ==
    {pid \in DOMAIN p.page_table : p.frames[p.page_table[pid]].pin_count > 0}
AllPinned(p) ==
    /\ p.free_list = << >>
    /\ \A i \in DOMAIN p.frames : p.frames[i].pin_count > 0

\* C20: a frame whose pin_count is above 0 is never taken as an eviction
\* victim: across every call its page stays in the page table, in the same
\* frame, with the contents its holder gave it.  FetchPage of a page that is not resident
\* and NewPage return the null pointer exactly when every frame is pinned,
\* and then leave the pool as it was; so once a page has been unpinned to
\* zero they hand out a frame again.
C20_PinnedStay ==
    [][(nops' = nops + 1 /\ fault' = "none") =>
          /\ \A pid \in PinnedPages(pool) :
                /\ pid \in DOMAIN pool'.page_table
                /\ pool'.page_table[pid] = pool.page_table[pid]
                /\ pool'.frames[pool.page_table[pid]].page_id = pid
                /\ (out'.op = "WritePage" /\ out'.key = pid)
                   \/ pool'.frames[pool.page_table[pid]].data =
                         pool.frames[pool.page_table[pid]].data
          /\ (\/ out'.op = "NewPage"
              \/ out'.op = "FetchPage" /\ out'.key \notin DOMAIN pool.page_table)
             => /\ out'.status = "null" <=> AllPinned(pool)
                /\ out'.status = "null" => pool' = pool
                /\ out'.status = "frame" =>
                      /\ out'.key \in DOMAIN pool'.page_table
                      /\ pool'.frames[pool'.page_table[out'.key]].pin_count = 1]_vars
\* NewPage has been refused on a pool of two pinned frames and, after an
\* UnpinPage, has handed out a frame: the fourth page of the file is handed
\* out by the fifth call, which two frames allow only if the third page was
\* allocated by a refused NewPage (four NewPage calls that all succeed need
\* two UnpinPage calls in between).
C20_Witness ==
    /\ nops = 5
    /\ out.op = "NewPage"
    /\ out.status = "frame"
    /\ out.key = 4 * PAGE_SIZE
    /\ Cardinality(DOMAIN pool.frames) = 2
    /\ AllPinned(pool)

\* The pages of the frames of lru_list, front first.
LruPages(p) == [i \in DOMAIN p.lru_list |-> p.frames[p.lru_list[i]].page_id]

\* C21: lru_list holds the resident frames with pin_count 0 in the order in
\* which their pin count dropped to 0, so a page that is fetched again and
\* unpinned goes to its back; when FetchPage of a page that is not resident
\* or NewPage finds no free frame and some resident frame unpinned, the page
\* it evicts is the one whose pin count dropped to 0 least recently, and
\* every other page stays resident.
C21_LruVictim ==
    [][(nops' = nops + 1 /\ fault' = "none") =>
          /\ LruPages(pool') = redo'
          /\ (/\ \/ out'.op = "NewPage"
                 \/ out'.op = "FetchPage" /\ out'.key \notin DOMAIN pool.page_table
              /\ pool.free_list = << >>
              /\ redo # << >>)
             => /\ out'.status = "frame"
                /\ DOMAIN pool'.page_table =
                      (DOMAIN pool.page_table \ {Head(redo)}) \cup {out'.key}
                /\ redo' = Tail(redo)
          /\ (out'.op \in {"UnpinPage", "WritePage"} /\ out'.status = "true"
                /\ pool'.frames[pool'.page_table[out'.key]].pin_count = 0)
             => Back(redo') = out'.key]_vars
\* NewPage has evicted the page unpinned first of two idle pages, which is
\* neither the page created first nor the one in the lowest frame.
C21_Witness ==
    /\ out.op = "NewPage"
    /\ out.status = "frame"
    /\ Cardinality(DOMAIN pool.frames) = 2
    /\ PAGE_SIZE \in DOMAIN pool.page_table
    /\ (2 * PAGE_SIZE) \notin DOMAIN pool.page_table
    /\ redo = << PAGE_SIZE >>
    /\ (2 * PAGE_SIZE) \in DOMAIN kv
    /\ nops = 5

\* C22: the pool over the data file behaves as a plain page store.  After
\* every call each page the client created holds, as FetchPage would return
\* it, the bytes last written to it through the pool; a FetchPage that hands
\* out a frame hands out those bytes; and a page that was resident and dirty
\* and has been evicted by NewPage or FetchPage is in the data file with the
\* contents its frame had.
C22_PageStore ==
    [][(nops' = nops + 1 /\ fault' = "none") =>
          /\ \A pid \in DOMAIN kv' : Node(pid)' = kv'[pid]
          /\ (out'.op = "FetchPage" /\ out'.status = "frame" /\ out'.key \in DOMAIN kv)
             => pool'.frames[pool'.page_table[out'.key]].data = kv[out'.key]
          /\ out'.op \in {"FetchPage", "NewPage"} =>
                \A pid \in DOMAIN pool.page_table \ DOMAIN pool'.page_table :
                    pool.frames[pool.page_table[pid]].dirty =>
                        PageData(disk', pid) = pool.frames[pool.page_table[pid]].data]_vars
\* On a pool of one frame the first page has been written, evicted by the
\* NewPage of the second page and fetched back from the data file.
C22_Witness ==
    /\ out.op = "FetchPage"
    /\ out.key = PAGE_SIZE
    /\ out.status = "frame"
    /\ Cardinality(DOMAIN pool.frames) = 1
    /\ (2 * PAGE_SIZE) \in DOMAIN kv
    /\ PAGE_SIZE \in DOMAIN kv
    /\ kv[PAGE_SIZE] # ZeroPage
    /\ ~pool.frames[0].dirty
    /\ pool.frames[0].data = kv[PAGE_SIZE]

\* C23: DeletePage of a resident page with pin_count 0 returns true, takes
\* the page out of the page table and its frame out of lru_list, puts the
\* frame at the back of the free list and leaves the data file as it was,
\* also when the frame was dirty; of a resident pinned page it returns false
\* and changes neither the pool nor the data file.
C23_DeletePage ==
    [][(nops' = nops + 1 /\ out'.op = "DeletePage" /\ out'.key \in DOMAIN pool.page_table) =>
          /\ disk' = disk
          /\ io' = << >>
          /\ IF pool.frames[pool.page_table[out'.key]].pin_count > 0
             THEN out'.status = "false" /\ pool' = pool
             ELSE /\ out'.status = "true"
                  /\ pool'.page_table = MapErase(pool.page_table, out'.key)
                  /\ pool'.lru_list = SeqRemove(pool.lru_list, pool.page_table[out'.key])
                  /\ pool.page_table[out'.key] \notin Range(pool'.lru_list)
                  /\ pool'.free_list = Append(pool.free_list, pool.page_table[out'.key])
                  /\ \A i \in DOMAIN pool.frames :
                        i # pool.page_table[out'.key] => pool'.frames[i] = pool.frames[i]]_vars
\* A page whose frame differed from the data file has been dropped: the
\* frame is back on the free list and the file still has the older bytes.
C23_Witness ==
    /\ out.op = "DeletePage"
    /\ out.status = "true"
    /\ out.key < disk.next
    /\ out.key \notin DOMAIN pool.page_table
    /\ pool.free_list # << >>
    /\ pool.frames[Back(pool.free_list)].data \in PoolImages
    /\ PageData(disk, out.key) = ZeroPage
    /\ \E pid \in DOMAIN pool.page_table : pool.frames[pool.page_table[pid]].pin_count > 0

\* C24: DeletePage returns false when the page is pinned and also when the
\* page is not in the pool.
C24_DeletePageFalse ==
    [][(nops' = nops + 1 /\ out'.op = "DeletePage"
          /\ \/ out'.key \notin DOMAIN pool.page_table
             \/ out'.key \in PinnedPages(pool))
       => out'.status = "false"]_vars
\* DeletePage of a page that was never brought into the pool has answered.
C24_Witness ==
    /\ out.op = "DeletePage"
    /\ out.status = "true"
    /\ nops = 1
    /\ pool.page_table = [x \in {} |-> 0]

\* C25: UnpinPage of a page that is not resident returns false and changes
\* nothing; of a resident page with pin_count above 0 it returns true, takes
\* exactly one off pin_count and leaves the dirty flag set if it was set or
\* if the caller says dirty; of a resident page whose pin_count is 0 it
\* returns false and changes nothing.  So no pin_count is ever negative and
\* no frame is twice in lru_list.
C25_UnpinPage ==
    [][(nops' = nops + 1 /\ fault' = "none") =>
          /\ \A i \in DOMAIN pool'.frames : pool'.frames[i].pin_count >= 0
          /\ Cardinality(Range(pool'.lru_list)) = Len(pool'.lru_list)
          /\ out'.op = "UnpinPage" =>
                /\ disk' = disk
                /\ IF out'.key \notin DOMAIN pool.page_table
                   THEN out'.status = "false" /\ pool' = pool
                   ELSE IF pool.frames[pool.page_table[out'.key]].pin_count = 0
                   THEN out'.status = "false" /\ pool' = pool
                   ELSE /\ out'.status = "true"
                        /\ pool'.page_table = pool.page_table
                        /\ pool'.free_list = pool.free_list
                        /\ \A i \in DOMAIN pool.frames :
                              IF i # pool.page_table[out'.key]
                              THEN pool'.frames[i] = pool.frames[i]
                              ELSE /\ pool'.frames[i].pin_count = pool.frames[i].pin_count - 1
                                   /\ pool.frames[i].dirty => pool'.frames[i].dirty
                                   /\ pool'.frames[i].page_id = pool.frames[i].page_id
                                   /\ pool'.frames[i].data = pool.frames[i].data]_vars
\* UnpinPage(page_id, false) has been refused on a resident page that is
\* dirty and already at pin_count 0.
C25_Witness ==
    /\ out.op = "UnpinPage"
    /\ out.status = "false"
    /\ out.key \in DOMAIN pool.page_table
    /\ pool.frames[pool.page_table[out.key]].pin_count = 0
    /\ pool.frames[pool.page_table[out.key]].dirty
    /\ Len(pool.lru_list) = 2

\* C28: when FlushAllPages returns no resident frame is dirty and the data
\* file holds, for every resident page, exactly the frame's contents; the
\* page table, lru_list, the free list and every frame's page, pin count and
\* contents are as before the call, and the file was synced last.
C28_FlushAllPages ==
    [][(nops' = nops + 1 /\ out'.op = "FlushAllPages" /\ fault' = "none") =>
          /\ \A pid \in DOMAIN pool'.page_table :
                /\ ~pool'.frames[pool'.page_table[pid]].dirty
                /\ PageData(disk', pid) = pool'.frames[pool'.page_table[pid]].data
          /\ pool'.page_table = pool.page_table
          /\ pool'.lru_list = pool.lru_list
          /\ pool'.free_list = pool.free_list
          /\ \A i \in DOMAIN pool.frames :
                pool'.frames[i] = [pool.frames[i] EXCEPT !.dirty = FALSE]
          /\ \A pid \in PoolPages \ DOMAIN pool.page_table :
                pid < disk.next => PageData(disk', pid) = PageData(disk, pid)
          /\ io' # << >> /\ Back(io') = <<"sync">>]_vars
\* FlushAllPages has written a pinned page and an idle page, both carrying
\* bytes the data file did not have.
C28_Witness ==
    /\ out.op = "FlushAllPages"
    /\ Len(io) = 3
    /\ Len(pool.lru_list) = 1
    /\ \A pid \in DOMAIN pool.page_table :
          pool.frames[pool.page_table[pid]].data \in PoolImages

\* C26: Insert is all-or-nothing.  No Insert ends in a crash, and an Insert
\* that returns a status other than OK because the pool has no frame to give
\* leaves the tree structurally valid and holding the map it held before.
C26_InsertAtomic ==
    [][(nops' = nops + 1 /\ out'.op = "Insert") =>
          /\ fault' = "none"
          /\ out'.status # "OK" => (TreeMap' = TreeMap /\ StructurallyValid')]_vars
\* Insert of a new key into a full root leaf over a pool of one frame:
\* AllocPage had no frame for the new leaf while the old leaf was pinned.
C26_Witness ==
    /\ out.op = "Insert"
    /\ fault = "ub"
    /\ PoolSize = 1
    /\ DOMAIN pool.page_table # {}

\* C30: when a public operation of the tree has returned, with any status,
\* every frame of the pool has pin_count 0, and every resident frame is in
\* lru_list: each pin taken during the operation was released once.
C30_NoPinLeft ==
    (run = "open" /\ fault = "none") =>
        /\ \A i \in DOMAIN pool.frames : pool.frames[i].pin_count = 0
        /\ Range(pool.lru_list) = {pool.page_table[pid] : pid \in DOMAIN pool.page_table}
\* A Delete that merged two leaves and freed pages has returned on a pool of
\* two frames.
C30_Witness ==
    /\ out.op = "Delete"
    /\ out.status = "OK"
    /\ disk.free_head # INVALID_PAGE_ID
    /\ PoolSize = 2
    /\ \A i \in DOMAIN pool.frames : pool.frames[i].pin_count = 0

\* ---- The disk manager on its own, with system calls that may fail ----
\* A client of DiskManager that allocates and frees pages, at most
\* MaxGrowOps calls.  It starts on a new file or on a file whose pages up
\* to the first MinFileGrowth bytes are all allocated, so that the next
\* AllocatePage grows the file; it frees pages it was given and has not
\* freed.  A call that throws ends the run.
MaxGrowOps == 5

GrowPages == {PAGE_SIZE, 2 * PAGE_SIZE, 3 * PAGE_SIZE}
SysFailures == {"none", "ftruncate", "mmap"}

RECURSIVE AllocateMany(_, _)
AllocateMany(d, n) ==
    IF n = 0 THEN d
    ELSE IF n = 1 THEN AllocatePage(d)[1]
    ELSE Only({ AllocateMany(d1, n - n \div 2) : d1 \in {AllocateMany(d, n \div 2)} })

GrowDisks == {NewDisk, AllocateMany(NewDisk, MinFileGrowth \div PAGE_SIZE - 1)}

GrowInit ==
    /\ disk \in {d @@ [mapped |-> TRUE, file_len |-> d.file_size] : d \in GrowDisks}
    /\ pool = NewPool(0)
    /\ wal = NewWal
    /\ tree = [root_offset |-> INVALID_PAGE_ID, next_page_offset |-> PAGE_SIZE,
               wal_enabled |-> FALSE]
    /\ run = "open"
    /\ fault = "none"
    /\ out = NoOut
    /\ io = << >>
    /\ kv = [k \in {} |-> << >>]
    /\ acked = {}
    /\ redo = << >>
    /\ tail = << >>
    /\ nops = 0

GrowReady == run = "open" /\ fault = "none" /\ nops < MaxGrowOps

GrowAllocatePage(sys) ==
    /\ GrowReady
    /\ \E a \in {AllocatePageSys(disk, sys)} :
       /\ disk' = a[1]
       /\ fault' = IF a[3] THEN "exception" ELSE "none"
       /\ out' = [NoOut EXCEPT !.op = "AllocatePage", !.key = a[2],
                               !.status = IF a[3] THEN "runtime_error" ELSE "OK"]
    /\ nops' = nops + 1
    /\ UNCHANGED <<pool, wal, tree, run, io, kv, acked, redo, tail>>

GrowFreePage(page_offset) ==
    /\ GrowReady
    /\ page_offset < disk.next
    /\ page_offset \notin Range(FreeChain)
    /\ disk' = FreePage(disk, page_offset)
    /\ out' = [NoOut EXCEPT !.op = "FreePage", !.key = page_offset, !.status = "OK"]
    /\ nops' = nops + 1
    /\ UNCHANGED <<pool, wal, tree, run, fault, io, kv, acked, redo, tail>>

GrowNext ==
    \/ \E sys \in SysFailures : GrowAllocatePage(sys)
    \/ \E page_offset \in GrowPages : GrowFreePage(page_offset)

GrowSpec == GrowInit /\ [][GrowNext]_vars

\* C27: an AllocatePage that has to grow the file either completes, with
\* the file, file_size and the mapping all at the new size, or, when
\* ftruncate or mmap fails, leaves the DiskManager as it was before the
\* call: the old file length, the old file_size, a valid mapping and
\* next_page_offset unchanged.
C27_GrowthAtomic ==
    [][(nops' = nops + 1 /\ out'.op = "AllocatePage") =>
          IF out'.status = "OK"
          THEN /\ disk'.mapped
               /\ disk'.file_len = disk'.file_size
               /\ disk'.next <= disk'.file_size
               /\ disk'.file_size >= disk.file_size
          ELSE disk' = disk]_vars
\* mmap has failed after ftruncate had grown the file: nothing is mapped and
\* file_size is behind the file's length.
C27_Witness ==
    /\ out.op = "AllocatePage"
    /\ out.status = "runtime_error"
    /\ ~disk.mapped
    /\ disk.file_len > disk.file_size
    /\ disk.next = disk.file_size
    /\ disk.free_head = INVALID_PAGE_ID

\* ---- Recovery of a damaged log ----
\* The log file a process finds at start: up to MaxLogLen records as a
\* writer left them (LSNs 1, 2, ..., page writes and checkpoint marks), one
\* of which may be damaged: its lsn zeroed, its type replaced by a value
\* past kCheckpointEnd, or its bytes not matching its checksum (which is
\* also how a header or payload cut short by the end of the file reads).
\* The process opens the log and recovers, may append and flush one page
\* write, and closes; tail keeps the log as it was found at the last open.
MaxLogLen == 3
MaxScanAppends == 1

LogShapes ==
    {<<kPageWrite, page_id, image>> : page_id \in WalPages, image \in WalImages}
        \cup {<<kCheckpointBegin, INVALID_PAGE_ID, ZeroPage>>,
              <<kCheckpointEnd, INVALID_PAGE_ID, ZeroPage>>}

WrittenLog(shapes) ==
    [i \in DOMAIN shapes |->
        [lsn |-> i, type |-> shapes[i][1], page_id |-> shapes[i][2],
         data_len |-> IF shapes[i][1] = kPageWrite THEN PAGE_SIZE ELSE 0,
         data |-> shapes[i][3], crc_ok |-> TRUE]]

Damaged(rec, how) ==
    CASE how = "lsn" -> [rec EXCEPT !.lsn = 0]
      [] how = "type" -> [rec EXCEPT !.type = kCheckpointEnd + 1]
      [] OTHER -> [rec EXCEPT !.crc_ok = FALSE]

FoundLogs ==
    UNION {{WrittenLog(shapes)} \cup
           {[WrittenLog(shapes) EXCEPT ![k] = Damaged(@, how)] :
                k \in DOMAIN shapes, how \in {"lsn", "type", "checksum"}} :
           shapes \in UNION {[1..n -> LogShapes] : n \in 0..MaxLogLen}}

ScanInit ==
    /\ disk = NewDisk
    /\ pool = NewPool(2)
    /\ \E file \in FoundLogs :
          /\ wal = [file |-> file, hdr |-> 0, synced |-> Len(file),
                    next_lsn |-> 0, checkpoint_lsn |-> 0]
          /\ tail = file
    /\ tree = [root_offset |-> INVALID_PAGE_ID, next_page_offset |-> PAGE_SIZE,
               wal_enabled |-> TRUE]
    /\ run = "down"
    /\ fault = "none"
    /\ out = NoOut
    /\ io = << >>
    /\ kv = [k \in {} |-> << >>]
    /\ acked = {}
    /\ redo = << >>
    /\ nops = 0

\* WriteAheadLog::WriteAheadLog on the file found, then Recover(disk).
ScanRecover ==
    /\ run = "down"
    /\ run' = "open"
    /\ \E s \in {Recover(MachineOf(disk, pool, OpenWal(wal), tree))} :
       /\ Commit(s)
       /\ out' = [NoOut EXCEPT !.op = "Recover", !.key = s.ret, !.status = "OK"]
    /\ UNCHANGED <<kv, acked, redo, tail, nops>>

\* LogPageWrite, then Flush.
ScanLogPageWrite(page_id, page_data) ==
    /\ run = "open" /\ fault = "none" /\ nops < MaxScanAppends
    /\ wal' = WalFlush(LogPageWrite(wal, page_id, page_data)[1])
    /\ out' = [NoOut EXCEPT !.op = "LogPageWrite", !.key = page_id]
    /\ nops' = nops + 1
    /\ UNCHANGED <<disk, pool, tree, run, fault, io, kv, acked, redo, tail>>

\* ~WriteAheadLog
ScanClose ==
    /\ run = "open" /\ fault = "none"
    /\ run' = "down"
    /\ wal' = CrashedWal(wal, Len(wal.file), FALSE)
    /\ tail' = wal.file
    /\ out' = [NoOut EXCEPT !.op = "Close"]
    /\ UNCHANGED <<disk, pool, tree, fault, io, kv, acked, redo, nops>>

ScanNext ==
    \/ ScanRecover
    \/ \E page_id \in WalPages, page_data \in WalImages :
          ScanLogPageWrite(page_id, page_data)
    \/ ScanClose

ScanSpec == ScanInit /\ [][ScanNext]_vars

\* A record Recovery takes for the end of the log, the records of a log
\* before the first such record, and among those the ones to redo: the
\* page writes after the last checkpoint end (or after the header's
\* checkpoint_lsn if there is none).
Greatest(S) == CHOOSE x \in S : \A y \in S : y <= x
Malformed(rec) == rec.lsn = 0 \/ rec.type > kCheckpointEnd \/ ~rec.crc_ok
WellFormedPart(file) ==
    {i \in DOMAIN file : \A j \in 1..i : ~Malformed(file[j])}
LastCheckpointLsn(file, hdr) ==
    IF \E i \in WellFormedPart(file) : file[i].type = kCheckpointEnd
    THEN Greatest({file[i].lsn : i \in {j \in WellFormedPart(file) : file[j].type = kCheckpointEnd}})
    ELSE hdr
ToRedo(file, hdr) ==
    {i \in WellFormedPart(file) :
        /\ file[i].type = kPageWrite
        /\ file[i].page_id # INVALID_PAGE_ID
        /\ file[i].data_len = PAGE_SIZE
        /\ file[i].lsn > LastCheckpointLsn(file, hdr)}

RECURSIVE SubtreeKeys(_, _)
SubtreeKeys(off, depth) ==
    IF depth > MaxDepth THEN {}
    ELSE Only({
             IF PageIsLeaf(n) THEN Range(n.keys)
             ELSE Range(n.keys)
                     \cup UNION {SubtreeKeys(ChildAt(n, i), depth + 1) : i \in 0..NumKeys(n)}
           : n \in {Node(off)} })

\* C31: after any sequence of inserts and deletes every internal node has
\* strictly ascending keys, every key below child i is less than key[i] and
\* every key below child i+1 is greater than or equal to key[i]; the
\* descent of SearchLeaf for the first and for the last key of a leaf (the
\* keys a separator can equal or bound) ends at that leaf.
C31_SeparatorOrder ==
    /\ Healthy
    /\ \A n \in AllInternal :
          \E page \in {Node(n)} :
              /\ ViewOK(page) /\ NumKeys(page) = Len(page.keys)
              /\ StrictlyAscending(page.keys)
              /\ \A i \in 0..(NumKeys(page) - 1) :
                    /\ \A k \in SubtreeKeys(ChildAt(page, i), 1) : k < KeyAt(page, i)
                    /\ \A k \in SubtreeKeys(ChildAt(page, i + 1), 1) : k >= KeyAt(page, i)
    /\ \A l \in Range(AllLeaves) :
          \A k \in {KeyAt(Node(l), 0), KeyAt(Node(l), NumKeys(Node(l)) - 1)} :
              \E s \in {SearchLeaf(M, k)} : ~Dead(s) /\ s.ret = l

\* A Delete has merged two internal nodes under a root that it then
\* replaced by the merged node (three pages freed by one call): a
\* two-level tree of more than 36 leaves, with a separator that a leaf
\* holds as its first key.
C31_Witness ==
    /\ out.op = "Delete" /\ out.status = "OK"
    /\ Len(FreeChain) >= 3
    /\ Root # INVALID_PAGE_ID /\ ~PageIsLeaf(Node(Root))
    /\ NumKeys(Node(Root)) > 36
    /\ \E i \in 0..(NumKeys(Node(Root)) - 1) :
          KeyAt(Node(Root), i) \in Range(Node(ChildAt(Node(Root), i + 1)).keys)

\* ------------------------------------------------------------------------
\* The frontier of the data file after Recover (specification WalSpec)
\* ------------------------------------------------------------------------
\* C32: when Recover returns, every page it applied a PAGE_WRITE record to
\* lies below next_page_offset, so the next AllocatePage does not hand out
\* (and zero) a page that was just recovered.
C32_RecoveredBelowFrontier ==
    [][(out'.op = "Recover" /\ run = "down") =>
          \A i \in ToRedo(wal.file, wal.hdr) :
              /\ wal.file[i].page_id < disk'.next
              /\ AllocatePage(disk')[2] # wal.file[i].page_id]_vars

\* Recover has applied a record to a page inside the file that lies at or
\* past next_page_offset.
C32_Witness ==
    /\ out.op = "Recover" /\ out.key > 0
    /\ \E i \in DOMAIN redo :
          /\ redo[i][1] >= disk.next
          /\ InFile(disk, redo[i][1])
          /\ PageData(disk, redo[i][1]) = redo[i][2]

\* ------------------------------------------------------------------------
\* Merges (specification Spec)
\* ------------------------------------------------------------------------
\* The internal node of the tree that has off among its children, and the
\* place of x in seq.
ParentOf(off) == CHOOSE n \in AllInternal : off \in Range(Children(Node(n)))
IndexIn(seq, x) == CHOOSE i \in DOMAIN seq : seq[i] = x

\* The leaf that holds the records of leaves left and right but for key,
\* linked to the leaf after right.
MergedLeaf(left, right, key) ==
    Only({
        MkLeaf(RemoveAt(recs, IndexIn([i \in DOMAIN recs |-> recs[i][1]], key)),
               NextLeaf(right))
      : recs \in {Records(left) \o Records(right)} })

\* The internal node that holds the keys of left, sep and the keys of
\* right, and their children, but for the child gone and the key before it.
MergedInternal(left, right, sep, gone) ==
    Only({ Only({ Only({
        MkInternal(RemoveAt(ks, m - 1), RemoveAt(cs, m))
      : m \in {IndexIn(cs, gone)} })
      : cs \in {Children(left) \o Children(right)} })
      : ks \in {left.keys \o <<sep>> \o right.keys} })

\* C33: a Delete frees, besides a root it replaces, only right nodes of
\* merges.  For each such node (child j >= 1 of its parent, the node left
\* of it being child j - 1): the left node survives and holds the entries
\* of both (the records but for the deleted one; for internal nodes the
\* keys of both with the parent's separator between them and the children
\* of both, but for the child a merge below removed), within 35 records or
\* 100 keys; a parent that was not itself rebalanced afterwards has lost
\* exactly separator j - 1 and child j; the right node is not in the pool
\* and has been pushed on the free list.
C33_Merge ==
    [][(out'.op = "Delete" /\ nops' = nops + 1 /\ out'.status = "OK") =>
          \E freed \in {Range(FreeChain') \ Range(FreeChain)} :
              /\ SubSeq(FreeChain', Cardinality(freed) + 1, Len(FreeChain')) = FreeChain
              /\ \A right_off \in freed \ {Root} :
                    /\ right_off \in TreePages
                    /\ right_off \notin DOMAIN pool'.page_table
                    /\ \E parent_off \in {ParentOf(right_off)} :
                       \E parent \in {Node(parent_off)} :
                       \E j \in {IndexIn(Children(parent), right_off) - 1} :
                       \E left_off \in {ChildAt(parent, j - 1)} :
                       \E left \in {Node(left_off)}, right \in {Node(right_off)} :
                           /\ j >= 1
                           /\ left_off \in TreePages' /\ left_off \notin freed
                           /\ IF PageIsLeaf(right)
                              THEN /\ Node(left_off)' = MergedLeaf(left, right, out'.key)
                                   /\ NumKeys(Node(left_off)') <= LEAF_MAX_KEYS
                                   /\ NumKeys(Node(left_off)') = NumKeys(left) + NumKeys(right) - 1
                              ELSE /\ \E gone \in {Range(Children(left) \o Children(right))
                                                      \cap freed} :
                                         /\ Cardinality(gone) = 1
                                         /\ Node(left_off)' =
                                               MergedInternal(left, right, KeyAt(parent, j - 1),
                                                              Only(gone))
                                   /\ NumKeys(Node(left_off)') <= INTERNAL_MAX_KEYS
                                   /\ NumKeys(Node(left_off)') = NumKeys(left) + NumKeys(right)
                           /\ (/\ parent_off \in TreePages'
                               /\ NumKeys(Node(parent_off)') = NumKeys(parent) - 1)
                              => Node(parent_off)' =
                                    MkInternal(RemoveAt(parent.keys, j),
                                               RemoveAt(Children(parent), j + 1))
                           /\ parent_off \notin TreePages'
                              => (parent_off \in freed
                                  /\ (parent_off = Root => Root' = left_off))]_vars

\* A Delete has merged two leaves under a root of 100 keys, which keeps 99.
C33_Witness ==
    /\ out.op = "Delete" /\ out.status = "OK" /\ nops = 1
    /\ Len(FreeChain) = 1
    /\ Root # INVALID_PAGE_ID /\ ~PageIsLeaf(Node(Root))
    /\ NumKeys(Node(Root)) = INTERNAL_MAX_KEYS - 1
    /\ \E i \in 0..NumKeys(Node(Root)) :
          NumKeys(Node(ChildAt(Node(Root), i))) = LEAF_MAX_KEYS

\* ------------------------------------------------------------------------
\* The root (specification Spec)
\* ------------------------------------------------------------------------
\* C34: between operations the root is not an empty node: an internal root
\* has at least one key and so two children, a leaf root at least one
\* record.  A Delete that replaces an internal root (its two children were
\* merged, which left it without a key) makes the merged node, child 0, the
\* root, frees the page of the old root and stores the new root_offset in
\* the metadata page.
C34_RootNotEmpty ==
    /\ [](/\ Healthy
          /\ Root # INVALID_PAGE_ID =>
                /\ NumKeys(Node(Root)) >= 1
                /\ ~PageIsLeaf(Node(Root)) =>
                      Len(Children(Node(Root))) = NumKeys(Node(Root)) + 1)
    /\ [][(/\ out'.op = "Delete" /\ nops' = nops + 1
           /\ Root # INVALID_PAGE_ID /\ ~PageIsLeaf(Node(Root))
           /\ Root' # Root) =>
             /\ out'.status = "OK"
             /\ NumKeys(Node(Root)) = 1
             /\ Root' = ChildAt(Node(Root), 0)
             /\ Root' \in TreePages
             /\ disk'.root = Root'
             /\ disk'.free_head = Root
             /\ ReadLink(PageData(disk', Root)) \in {disk.free_head} \cup TreePages
             /\ Root \notin DOMAIN pool'.page_table
             /\ Root \notin TreePages'
             /\ TreeKeys' = TreeKeys \ {out'.key}]_vars

\* A Delete has replaced the root of a three-level tree by the node its two
\* children were merged into, now a root of 100 keys: the call freed the
\* old root, an internal node and a leaf, and the metadata page names the
\* new root.
C34_Witness ==
    /\ out.op = "Delete" /\ out.status = "OK"
    /\ Root # INVALID_PAGE_ID /\ ~PageIsLeaf(Node(Root))
    /\ disk.root = Root
    /\ Len(FreeChain) = 3
    /\ NumKeys(Node(Root)) = INTERNAL_MAX_KEYS

\* ------------------------------------------------------------------------
\* Trees over a pool of two frames (specification PairSpec): the trees of
\* Spec, small and large, each opened over two frames.
\* ------------------------------------------------------------------------
PairSetups == {<<w, 2>> : w \in SmallWorkloads \cup {RootFull, RightLends, LeftLends}}

PairInit == \E setup \in PairSetups : InitWith(setup[1], setup[2], TRUE)

PairSpec == PairInit /\ [][Next]_vars

\* The pins of the last call, as <<page_id, not null, frames pinned>>.
Pins(ops) == {<<ops[i][2], ops[i][3], ops[i][4]>> : i \in {j \in DOMAIN ops : ops[j][1] = "pin"}}

\* The pages of the tree that the step changes.
Rewritten == {off \in PageOffsets : Node(off)' # Node(off)}

\* C35: over a pool of two frames no FetchPage or NewPage call of a tree
\* operation returns a null pointer.  While an operation only descends
\* (Search, RangeQuery, and an Insert or Delete that rewrites at most its
\* leaf) one page is pinned at a time; during a split, a borrow or a merge
\* at most two are.
C35_TwoFramesSuffice ==
    [][nops' = nops + 1 =>
          /\ PoolSize = 2
          /\ fault' = "none"
          /\ \A pin \in Pins(io') : pin[2] /\ pin[3] <= 2
          /\ (\/ out'.op \in {"Search", "RangeQuery"}
              \/ out'.op \in {"Insert", "Delete"}
                    /\ TreePages' = TreePages /\ Cardinality(Rewritten) <= 1)
             => \A pin \in Pins(io') : pin[3] = 1]_vars

\* An Insert has split a leaf, the root above it and so grown the tree to
\* three levels, over two frames: it pinned the new leaf while the old
\* one was pinned, and no pin failed.
C35_Witness ==
    /\ out.op = "Insert" /\ out.status = "OK" /\ PoolSize = 2 /\ nops = 1
    /\ LeafDepths(Root, 0) = {2}
    /\ Cardinality(DOMAIN kv) = 1836
    /\ \E pin \in Pins(io) : pin[2] /\ pin[3] = 2
    /\ \A pin \in Pins(io) : pin[2]

\* ------------------------------------------------------------------------
\* The buffer pool with calls that raise (specification RaiseSpec): the
\* client of PoolSpec, which also fetches pages that lie outside the data
\* file.  DiskManager::PageData then throws std::out_of_range out of
\* FetchPage; the BufferPool object is as the throw left it.
\* ------------------------------------------------------------------------
RaisePages == PoolPages \cup {MinFileGrowth}

PoolFetchOutside(page_id) ==
    /\ PoolReady
    /\ ~InFile(disk, page_id)
    /\ \E s \in {FetchPage(M, page_id)} :
          PoolCall(s, "FetchPage", page_id,
                   IF s.thrown THEN "raised"
                   ELSE IF s.ret = NullPtr THEN "null" ELSE "frame", kv)

RaiseNext ==
    \/ PoolNext
    \/ \E page_id \in RaisePages : PoolFetchOutside(page_id)

RaiseSpec == PoolInit /\ [][RaiseNext]_vars

\* The pages that page_table maps to frame idx.
PagesIn(p, idx) == {pid \in DOMAIN p.page_table : p.page_table[pid] = idx}

\* C36: in every state of the pool, after calls that succeeded, failed or
\* raised, each frame is either on the free list (once) and the image of
\* no page, or off the free list, the image of exactly one page of
\* page_table and labelled with that page's id; and lru_list holds exactly
\* the resident frames whose pin_count is 0, each once.
C36_FramePartition ==
    /\ \A idx \in DOMAIN pool.frames :
          \E free \in {{i \in DOMAIN pool.free_list : pool.free_list[i] = idx}} :
          \E pages \in {PagesIn(pool, idx)} :
              \/ Cardinality(free) = 1 /\ pages = {}
              \/ /\ free = {}
                 /\ Cardinality(pages) = 1
                 /\ pages = {pool.frames[idx].page_id}
    /\ Range(pool.page_table) \subseteq DOMAIN pool.frames
    /\ Cardinality(Range(pool.lru_list)) = Len(pool.lru_list)
    /\ Range(pool.lru_list) =
          {idx \in DOMAIN pool.frames : PagesIn(pool, idx) # {} /\ pool.frames[idx].pin_count = 0}

\* A FetchPage of a page outside the file has raised on a pool that holds
\* another page: the frame it took is off the free list and in no entry of
\* page_table.
C36_Witness ==
    /\ out.op = "FetchPage" /\ out.status = "raised"
    /\ DOMAIN pool.page_table # {}
    /\ \E idx \in DOMAIN pool.frames :
          /\ idx \notin Range(pool.free_list)
          /\ PagesIn(pool, idx) = {}
          /\ pool.frames[idx].page_id = out.key
          /\ pool.frames[idx].pin_count = 1

\* ------------------------------------------------------------------------
\* LSNs and the checkpoint LSN (specification WalSpec)
\* ------------------------------------------------------------------------
\* C37: while a WriteAheadLog object exists, right after a re-open that
\* follows a checkpoint's truncation included, next_lsn is greater than
\* checkpoint_lsn, and every record in the log (appended after the last
\* completed checkpoint) has an LSN above the checkpoint LSN the header
\* keeps, the boundary Recover redoes after.
C37_NextLsnAboveCheckpoint ==
    run = "open" =>
        /\ wal.next_lsn > wal.checkpoint_lsn
        /\ wal.checkpoint_lsn = wal.hdr
        /\ \A i \in DOMAIN wal.file : wal.file[i].lsn > wal.hdr

\* A log re-opened after a checkpoint that truncated it: the header keeps
\* the checkpoint LSN and the object starts its LSNs over.
C37_Witness ==
    /\ run = "open" /\ out.op = "Recover"
    /\ wal.file = << >>
    /\ wal.hdr >= 1 /\ wal.checkpoint_lsn = wal.hdr
    /\ wal.next_lsn = 1

\* ------------------------------------------------------------------------
\* The pages of the file: in the tree or free (specification Spec)
\* ------------------------------------------------------------------------
\* The number of child pointers the internal nodes ns hold.
RECURSIVE ChildPointers(_)
ChildPointers(ns) ==
    IF ns = {} THEN 0
    ELSE Only({ NumKeys(Node(n)) + 1 + ChildPointers(ns \ {n})
              : n \in {CHOOSE x \in ns : TRUE} })

\* C38: after any sequence of Insert and Delete calls every page from
\* PAGE_SIZE up to next_page_offset is either a page of the tree or on the
\* free list, never both; the tree has as many child pointers as it has
\* pages below the root, so no page has two parents; and nothing in the
\* tree or on the free list lies outside that range.
C38_NoLeak ==
    \E used \in {TreePages}, free \in {Range(FreeChain)} :
        /\ Healthy
        /\ tree.next_page_offset = disk.next
        /\ used \cup free = {n * PAGE_SIZE : n \in 1..(PageNo(disk.next) - 1)}
        /\ used \cap free = {}
        /\ Cardinality(free) = Len(FreeChain)
        /\ Root # INVALID_PAGE_ID => ChildPointers(AllInternal) = Cardinality(used) - 1
        /\ Root # INVALID_PAGE_ID => Len(AllLeaves) = Cardinality(Range(AllLeaves))

\* An Insert has returned OK on a three-level tree next to which a page
\* freed by an earlier merge is still on the free list.
C38_Witness ==
    /\ out.op = "Insert" /\ out.status = "OK" /\ nops = 2
    /\ Len(FreeChain) >= 1
    /\ Root # INVALID_PAGE_ID /\ LeafDepths(Root, 0) = {2}

\* ------------------------------------------------------------------------
\* NewPage without a frame to give (specification PoolSpec)
\* ------------------------------------------------------------------------
\* C39: a NewPage call that returns null because every frame is pinned
\* leaves next_page_offset and free_list_head of the DiskManager as they
\* were: the failed call consumes no page of the file.
C39_FailedNewPage ==
    [][(out'.op = "NewPage" /\ out'.status = "null" /\ nops' = nops + 1) =>
          /\ AllPinned(pool)
          /\ disk'.next = disk.next
          /\ disk'.free_head = disk.free_head]_vars

\* A NewPage has returned null on a pool whose frames are all pinned: the
\* page it allocated lies below next_page_offset, is in no frame and is
\* not on the free list.
C39_Witness ==
    /\ out.op = "NewPage" /\ out.status = "null"
    /\ AllPinned(pool)
    /\ out.key = disk.next - PAGE_SIZE
    /\ out.key \notin DOMAIN pool.page_table
    /\ out.key \notin Range(FreeChain)

\* ------------------------------------------------------------------------
\* Free pages and the buffer pool (specification Spec)
\* ------------------------------------------------------------------------
\* C40: after any sequence of tree operations no page of the free list is
\* resident in the buffer pool and no frame carries the id of a free page;
\* so a page that stays on the free list through a call keeps its bytes in
\* the data file, the link to the next free page included, whatever the
\* call flushes or evicts.
C40_FreeNotResident ==
    /\ [](/\ Healthy
          /\ \A pid \in Range(FreeChain) :
                /\ pid \notin DOMAIN pool.page_table
                /\ \A idx \in DOMAIN pool.frames : pool.frames[idx].page_id # pid)
    /\ [][\A pid \in Range(FreeChain) \cap Range(FreeChain') :
             PageData(disk', pid) = PageData(disk, pid)]_vars

\* A Sync, the second call of the run, has written at least one frame back
\* to the data file while the free list holds a page and the tree still has
\* an internal root.
C40_Witness ==
    /\ out.op = "Sync" /\ nops = 2
    /\ Len(FreeChain) >= 1
    /\ \E i \in DOMAIN io : io[i][1] = "copy"
    /\ Root # INVALID_PAGE_ID /\ ~PageIsLeaf(Node(Root))

====
